---- MODULE Spec2Model ----
(***************************************************************************)
(* Progression and simulation engine of the farm game (version 0.4.1):     *)
(* catalog, reward model, field simulation, prestige ("rebirth") reset,    *)
(* offline reconciliation and the farmer worker.                           *)
(*                                                                         *)
(* Numbers.  The source computes in IEEE doubles.  Every quantity modelled *)
(* here is a rational with a small denominator, so it is kept as an exact  *)
(* integer with the scale in its name: Multiplier10 is multiplier x 10,    *)
(* timeMult10 is timeMult x 10, and so on.  Math.floor(a / b) for          *)
(* non-negative a is a \div b.  Times are milliseconds.                    *)
(***************************************************************************)
EXTENDS Integers, Sequences, FiniteSets, TLC

Min(a, b) == IF a <= b THEN a ELSE b
Max(a, b) == IF a >= b THEN a ELSE b

(***************************************************************************)
(* Catalog (farm-data.ts, farm-milestones.ts)                              *)
(***************************************************************************)
RegularPlantKeys ==
  {"carrot", "potato", "tomato", "corn", "onion", "pumpkin", "strawberry",
   "broccoli", "watermelon", "dragonfruit"}

RebirthPlantKeys ==
  {"rebirth_rose", "rebirth_orchid", "rebirth_lotus", "rebirth_crystal",
   "rebirth_star"}

PlantKeys == RegularPlantKeys \cup RebirthPlantKeys

\* plants: price, value, growTime of the regular plants
plants ==
  [k \in RegularPlantKeys |->
     CASE k = "carrot"      -> [price |-> 10,   value |-> 25,   growTime |-> 60000,   rebirthRequired |-> 0]
       [] k = "potato"      -> [price |-> 20,   value |-> 50,   growTime |-> 120000,  rebirthRequired |-> 0]
       [] k = "tomato"      -> [price |-> 40,   value |-> 90,   growTime |-> 240000,  rebirthRequired |-> 0]
       [] k = "corn"        -> [price |-> 80,   value |-> 180,  growTime |-> 480000,  rebirthRequired |-> 0]
       [] k = "onion"       -> [price |-> 150,  value |-> 300,  growTime |-> 720000,  rebirthRequired |-> 0]
       [] k = "pumpkin"     -> [price |-> 300,  value |-> 600,  growTime |-> 960000,  rebirthRequired |-> 0]
       [] k = "strawberry"  -> [price |-> 500,  value |-> 1000, growTime |-> 1200000, rebirthRequired |-> 0]
       [] k = "broccoli"    -> [price |-> 750,  value |-> 1500, growTime |-> 1500000, rebirthRequired |-> 0]
       [] k = "watermelon"  -> [price |-> 1000, value |-> 2000, growTime |-> 1800000, rebirthRequired |-> 0]
       [] k = "dragonfruit" -> [price |-> 2000, value |-> 4000, growTime |-> 2700000, rebirthRequired |-> 0]]

\* rebirthPlants: the prestige-locked plants with their rebirthRequired
rebirthPlants ==
  [k \in RebirthPlantKeys |->
     CASE k = "rebirth_rose"    -> [price |-> 50,   value |-> 150,   growTime |-> 45000,  rebirthRequired |-> 1]
       [] k = "rebirth_orchid"  -> [price |-> 200,  value |-> 600,   growTime |-> 90000,  rebirthRequired |-> 5]
       [] k = "rebirth_lotus"   -> [price |-> 500,  value |-> 1500,  growTime |-> 150000, rebirthRequired |-> 10]
       [] k = "rebirth_crystal" -> [price |-> 1000, value |-> 3000,  growTime |-> 240000, rebirthRequired |-> 20]
       [] k = "rebirth_star"    -> [price |-> 5000, value |-> 15000, growTime |-> 360000, rebirthRequired |-> 100]]

\* { ...plants, ...rebirthPlants }
plantDef == [k \in PlantKeys |-> IF k \in RegularPlantKeys THEN plants[k] ELSE rebirthPlants[k]]

\* getAllPlants(rebirths): the keys of the returned record
getAllPlants(r) ==
  RegularPlantKeys \cup {k \in RebirthPlantKeys : r >= rebirthPlants[k].rebirthRequired}

\* variants, in catalog order (variantKeys = Object.keys(variants))
variantKeys == <<"normal", "gold", "shiny", "diamond", "platinum", "mythic", "legendary">>

VariantSet == {variantKeys[i] : i \in 1..Len(variantKeys)}

\* variants[v].multiplier x 10
Multiplier10(v) ==
  CASE v = "normal"    -> 10
    [] v = "gold"      -> 25
    [] v = "shiny"     -> 50
    [] v = "diamond"   -> 100
    [] v = "platinum"  -> 200
    [] v = "mythic"    -> 500
    [] v = "legendary" -> 1500
    [] OTHER           -> 10

(***************************************************************************)
(* Reward model: variant rolling                                           *)
(*                                                                         *)
(* One roll walks the variants from the last catalog entry down to the     *)
(* second and draws Math.random() < 1 / effectiveChance for each.  With    *)
(* the catalog's numbers 1 / effectiveChance lies strictly between 0 and 1 *)
(* for every plant, shop level, event and penalty (the smallest            *)
(* effectiveChance is gold's 20 / 1.5 / 1.15 / 4 > 1), so every draw can   *)
(* go either way.  A roll is therefore determined by its draws: a function *)
(* from the index of a variant to the outcome of its draw.                 *)
(***************************************************************************)
DrawIdx == 2..Len(variantKeys)
DrawSet == [DrawIdx -> BOOLEAN]

RECURSIVE RollFrom(_, _)
RollFrom(i, d) ==
  IF i < 2 THEN "normal"
  ELSE IF d[i] THEN variantKeys[i]
  ELSE RollFrom(i - 1, d)

\* a roll that walks the variants from the commonest to the rarest
rollVariantCommonFirst(d) ==
  IF \E i \in DrawIdx : d[i]
  THEN variantKeys[CHOOSE i \in DrawIdx : d[i] /\ \A j \in DrawIdx : d[j] => i <= j]
  ELSE "normal"

\* rollVariant: for (i = variantKeys.length - 1; i >= 1; i--) in 0-based indices
rollVariant(d) == RollFrom(Len(variantKeys), d)

\* rollVariantWithPenalty: the same loop; chanceMult only changes the odds
rollVariantWithPenalty(d) == RollFrom(Len(variantKeys), d)

InSeq(x, s) == \E i \in 1..Len(s) : s[i] = x

\* a stacked roll that adds what the later rolls return without looking at
\* what it already holds
rollStackedVariantsNoDedup(d1, d2, d3) ==
  LET first == rollVariant(d1) IN
  IF first = "normal" THEN <<"normal">>
  ELSE
    LET second == rollVariantWithPenalty(d2) IN
    IF second # "normal"
    THEN LET third == rollVariantWithPenalty(d3)
         IN IF third # "normal" THEN <<first, second, third>> ELSE <<first, second>>
    ELSE <<first>>

\* a stacked roll that makes its third roll whatever the second returned
rollStackedVariantsThirdAlways(d1, d2, d3) ==
  LET first == rollVariant(d1) IN
  IF first = "normal" THEN <<"normal">>
  ELSE
    LET second == rollVariantWithPenalty(d2)
        third == rollVariantWithPenalty(d3)
        result2 == IF second # "normal" /\ second # first THEN <<first, second>> ELSE <<first>>
    IN IF third # "normal" /\ ~InSeq(third, result2) THEN Append(result2, third) ELSE result2

\* rollStackedVariants with the draws of the (up to) three rolls
rollStackedVariants(d1, d2, d3) ==
  LET first == rollVariant(d1) IN
  IF first = "normal" THEN <<"normal">>
  ELSE
    LET second == rollVariantWithPenalty(d2) IN
    IF second # "normal" /\ second # first
    THEN LET third == rollVariantWithPenalty(d3)
             result2 == <<first, second>>
         IN IF third # "normal" /\ ~InSeq(third, result2)
            THEN Append(result2, third)
            ELSE result2
    ELSE <<first>>

(***************************************************************************)
(* Reward model: valuation                                                 *)
(***************************************************************************)
RECURSIVE SumMultiplier10(_)
SumMultiplier10(vs) ==
  IF vs = <<>> THEN 0 ELSE Multiplier10(Head(vs)) + SumMultiplier10(Tail(vs))

\* a stacked valuation that counts the first variant only
calculateStackedValueFirst(baseValue, vs, r) ==
  (baseValue * Multiplier10(vs[1]) * (10 + r)) \div 100

\* calculateStackedValue: floor(baseValue * totalMultiplier * (1 + 0.1 * rebirths))
calculateStackedValue(baseValue, vs, r) ==
  (baseValue * SumMultiplier10(vs) * (10 + r)) \div 100

\* calculateValue: floor(baseValue * variant.multiplier * (1 + 0.1 * rebirths))
calculateValue(baseValue, v, r) ==
  (baseValue * Multiplier10(v) * (10 + r)) \div 100

\* totalVariantsCount: all plants times all variants
totalVariantsCount == Cardinality(PlantKeys) * Len(variantKeys)

\* indexMoneyBonus x 100: 1 + indexBonus * 0.01 * floor(indexCompletion * 10)
indexMoneyBonus100(indexBonus, discoveredCount) ==
  IF indexBonus > 0
  THEN 100 + indexBonus * ((discoveredCount * 10) \div totalVariantsCount)
  ELSE 100

\* a valuation that leaves the index bonus out
ApplyIndexBonusNone(value, bonus100) == value

\* Math.floor(value * idxBonus)
ApplyIndexBonus(value, bonus100) == (value * bonus100) \div 100

(***************************************************************************)
(* Progression: prestige ("rebirth") curves and milestones                 *)
(***************************************************************************)
\* Math.floor(50000 * Math.pow(1.35, rebirths)), tabulated for rebirths 0..35.
\* The exact value floor(50000 * 135^r / 100^r) needs more than 32 bits for
\* r >= 3; the table holds the exact values, which the double computation of
\* the source reproduces for every entry.
RebirthCostTable ==
  <<50000, 67500, 91125, 123018, 166075, 224201, 302672, 408607, 551620,
    744687, 1005327, 1357192, 1832209, 2473483, 3339202, 4507923, 6085696,
    8215690, 11091182, 14973095, 20213679, 27288467, 36839430, 49733231,
    67139862, 90638814, 122362399, 165189239, 223005473, 301057388,
    406427475, 548677091, 740714073, 999963998, 1349951398, 1822434388>>

getRebirthCost(r) == RebirthCostTable[r + 1]

\* getRebirthTokens: the stepped token reward
getRebirthTokens(r) ==
  IF r < 5 THEN 1 + (r \div 3)
  ELSE IF r < 20 THEN 3 + ((r - 5) \div 5)
  ELSE 5 + ((r - 20) \div 4)

\* rebirthMilestones, in table order
rebirthMilestones ==
  << [rebirth |-> 1,  key |-> "autoHarvest"],
     [rebirth |-> 3,  key |-> "growthBonus"],
     [rebirth |-> 5,  key |-> "goldChance"],
     [rebirth |-> 10, key |-> "bonusTokens"],
     [rebirth |-> 15, key |-> "firstPlantDisc"],
     [rebirth |-> 15, key |-> "doubleStart"],
     [rebirth |-> 20, key |-> "doubleRebirth"],
     [rebirth |-> 25, key |-> "autoSell"],
     [rebirth |-> 30, key |-> "tripleRebirth"],
     [rebirth |-> 50, key |-> "quadRebirth"],
     [rebirth |-> 75, key |-> "quintRebirth"],
     [rebirth |-> 80, key |-> "autoWater"] >>

\* hasMilestone: the first table entry with that key decides
hasMilestone(r, key) ==
  \E i \in 1..Len(rebirthMilestones) :
     /\ rebirthMilestones[i].key = key
     /\ \A j \in 1..(i - 1) : rebirthMilestones[j].key # key
     /\ r >= rebirthMilestones[i].rebirth

\* getMilestoneGrowthMult x 10
getMilestoneGrowthMult10(r) == IF hasMilestone(r, "growthBonus") THEN 11 ELSE 10

\* getMilestoneGoldMult x 10
getMilestoneGoldMult10(r) == IF hasMilestone(r, "goldChance") THEN 15 ELSE 10

getStartMoney(r) == IF hasMilestone(r, "doubleStart") THEN 20 ELSE 10

MAX_GROW_TIME == 720000

\* multiRebirthOptions: costMult x 10, tokenPenalty x 100
multiRebirthOptions ==
  << [count |-> 1, costMult10 |-> 10, tokenPenalty100 |-> 100, requiredRebirth |-> 0],
     [count |-> 2, costMult10 |-> 25, tokenPenalty100 |-> 95,  requiredRebirth |-> 20],
     [count |-> 3, costMult10 |-> 36, tokenPenalty100 |-> 92,  requiredRebirth |-> 30],
     [count |-> 4, costMult10 |-> 48, tokenPenalty100 |-> 90,  requiredRebirth |-> 50],
     [count |-> 5, costMult10 |-> 62, tokenPenalty100 |-> 88,  requiredRebirth |-> 75] >>

\* multiRebirthOptions.find(o => o.count === multiCount) || multiRebirthOptions[0]
FindOption(multiCount) ==
  IF \E i \in 1..Len(multiRebirthOptions) : multiRebirthOptions[i].count = multiCount
  THEN multiRebirthOptions[CHOOSE i \in 1..Len(multiRebirthOptions) :
                             multiRebirthOptions[i].count = multiCount]
  ELSE multiRebirthOptions[1]

\* floor(c * m10 / 10) without leaving 32 bits
MulDiv10(c, m10) == (c \div 10) * m10 + ((c % 10) * m10) \div 10

\* the cost of a bulk rebirth without the multiplier of its option
RebirthTotalCostFlat(r, multiCount) == getRebirthCost(r)

\* Math.floor(baseCost * option.costMult)
RebirthTotalCost(r, multiCount) == MulDiv10(getRebirthCost(r), FindOption(multiCount).costMult10)

RECURSIVE SumTokens(_, _)
SumTokens(r, n) == IF n <= 0 THEN 0 ELSE getRebirthTokens(r + n - 1) + SumTokens(r, n - 1)

\* the tokens of a bulk rebirth all taken at the current rebirth count
RebirthTotalTokensFlat(r, multiCount) ==
  (multiCount * getRebirthTokens(r) * FindOption(multiCount).tokenPenalty100) \div 100

\* Math.floor(totalTokens * option.tokenPenalty)
RebirthTotalTokens(r, multiCount) ==
  (SumTokens(r, multiCount) * FindOption(multiCount).tokenPenalty100) \div 100

rebirthFieldCosts == <<25, 60>>

fieldPrices == <<0, 50, 100, 200, 500, 1000, 2000, 4000, 8000, 16000>>

EVENT_INTERVAL == 900000
EVENT_DURATION == 300000

\* eventTypes: the focus variants, in table order
eventTypes == <<"gold", "shiny", "diamond", "platinum", "mythic", "legendary">>

MAX_OFFLINE_HOURS == 8
\* BASE_OFFLINE_EFFICIENCY x 10
BASE_OFFLINE_EFFICIENCY10 == 7

BASE_WATER_DURATION == 30000
BASE_WATER_COOLDOWN == 15000
CHAIN_COOLDOWN_INCREMENT == 1000
CHAIN_COOLDOWN_RESET == 5000

\* getWaterStats: speedMult x 4, cooldown = floor(15000 * (1 - 0.05 * level))
getWaterStats(upgrades) ==
  [duration   |-> BASE_WATER_DURATION + upgrades.duration * 5000,
   speedMult4 |-> CASE upgrades.strength = 1 -> 10
                    [] upgrades.strength = 2 -> 12
                    [] upgrades.strength = 3 -> 14
                    [] OTHER -> 8,
   range      |-> CASE upgrades.range = 1 -> 3
                    [] upgrades.range = 2 -> 5
                    [] OTHER -> 1,
   cooldown   |-> (BASE_WATER_COOLDOWN * (100 - upgrades.cooldownReduction * 5)) \div 100]

\* farmerLevels: slots and timeMult x 10 per level
farmerLevels ==
  << [level |-> 1, cost |-> 3,  slots |-> 1, timeMult10 |-> 30],
     [level |-> 2, cost |-> 5,  slots |-> 2, timeMult10 |-> 28],
     [level |-> 3, cost |-> 10, slots |-> 3, timeMult10 |-> 26],
     [level |-> 4, cost |-> 18, slots |-> 4, timeMult10 |-> 24],
     [level |-> 5, cost |-> 30, slots |-> 5, timeMult10 |-> 22] >>

\* getFarmerConfig: farmerLevels[level - 1] || farmerLevels[0]
getFarmerConfig(level) ==
  IF level \in 1..Len(farmerLevels) THEN farmerLevels[level] ELSE farmerLevels[1]

(***************************************************************************)
(* Bounds of the model                                                     *)
(***************************************************************************)
\* ticks of the 1-second game clock explored after mount
MaxTicks == 1
\* field slots 1..MaxFieldIdx can be bought
MaxFieldIdx == 2
\* in the game actions only the draws of variants 2..MaxRareIdx may succeed
MaxRareIdx == 3
\* events 1..MaxEventIdx of eventTypes may be picked
MaxEventIdx == 1
\* no rebirth beyond this count (the cost table ends at 35)
MaxRebirths == 33
\* the number of inputs the player makes in a run
MaxInputs == 2
\* ticks of the game clock in the runs that follow an event
MaxEventTicks == 3
\* ticks of the game clock in the runs that watch the fields grow
MaxGrowTicks == 32
\* sellFarmerHarvest may come as one input more
MaxSaleInputs == 3
\* the largest bulk rebirth the player asks for
MaxMulti == 3
\* the largest rebirth count the valuation functions are applied to
MaxValRebirths == 2

\* Date.now() at mount
Now0 == 1000000000

(***************************************************************************)
(* State                                                                   *)
(***************************************************************************)
VARIABLES
  gameState,            \* the GameState held by useState
  harvestedInventory,   \* HarvestedInventory: <<plantKey, storeKey>> -> count
  wateredFields,        \* field index -> remaining boost ms (0: absent)
  waterCooldowns,       \* field index -> remaining cooldown ms (0: absent)
  farmerHarvestSummary, \* pending farmer harvest summary (present = not null)
  cheatMode,            \* admin switch "infinite money"
  keepMoneyOnRebirth,   \* admin switch "keep money on rebirth"
  milestonePopup,       \* key of the milestone popup raised last, or "none"
  plantSelectionModal,  \* field index of the open plant dialog, 0 if closed
  offlineReport,        \* the welcome-back report set by loadGame
  lastAutoHarvestRef,   \* lastAutoHarvestRef.current
  lastWaterTimeRef,     \* lastWaterTimeRef.current
  waterChainRef,        \* waterChainRef.current
  pendingHarvest,       \* setTimeout(..., 0) callbacks queued by doHarvest
  now,                  \* Date.now()
  storage,              \* localStorage at mount: <<>> or <<save>>
  phase,                \* "mount" before loadGame has run, then "running"
  lastOp,               \* the operation invoked last and whether it was accepted
  inputs,               \* the number of inputs the player made so far
  rollDraws,            \* reward-model check: draws of the three rolls
  rollResult,           \* reward-model check: result of rollStackedVariants
  valIn,                \* valuation check: inputs
  valOut                \* valuation check: outputs

gameVars ==
  <<gameState, harvestedInventory, wateredFields, waterCooldowns,
    farmerHarvestSummary, cheatMode, keepMoneyOnRebirth, milestonePopup,
    plantSelectionModal, offlineReport, lastAutoHarvestRef, lastWaterTimeRef,
    waterChainRef, pendingHarvest, now, storage, phase, lastOp, inputs>>

pureVars == <<rollDraws, rollResult, valIn, valOut>>

vars == <<gameVars, pureVars>>

\* field slots that can exist in the model
FieldIdx == 1..(MaxFieldIdx + Len(rebirthFieldCosts))

EmptyField == [unlocked |-> TRUE, planted |-> "none", plantTime |-> 0, stage |-> 0]
LockedField == [unlocked |-> FALSE, planted |-> "none", plantTime |-> 0, stage |-> 0]

defaultWaterUpgrades == [duration |-> 0, strength |-> 0, range |-> 0, cooldownReduction |-> 0]

defaultRebirthShop ==
  [offlineEfficiency |-> 0, variantChance |-> 0, eventBonus |-> 0,
   waterStrength |-> 0, fieldStart |-> 0, indexBonus |-> 0]

defaultFarmer ==
  [unlocked |-> FALSE, level |-> 1, slots |-> <<>>, inventory |-> <<>>, autoReplant |-> TRUE]

NoSeeds == [k \in PlantKeys |-> 0]
NoDiscovered == [k \in PlantKeys |-> {}]

\* createDefaultState(rebirthShop, rebirths, rebirthFieldsBought)
createDefaultState(shop, r, rFields) ==
  [money |-> getStartMoney(r),
   fields |-> [i \in 1..(1 + shop.fieldStart + rFields) |-> EmptyField],
   inventory |-> NoSeeds,
   rebirths |-> 0,
   rebirthTokens |-> 0,
   discoveredVariants |-> NoDiscovered,
   eventStartTime |-> 0,
   eventType |-> "none",
   waterUpgrades |-> defaultWaterUpgrades,
   rebirthShop |-> shop,
   autoHarvest |-> FALSE,
   autoSell |-> "off",
   autoWater |-> FALSE,
   rebirthFieldsBought |-> rFields,
   milestoneTokensClaimed |-> FALSE,
   startMoneyUsed |-> FALSE,
   farmer |-> defaultFarmer,
   seenMilestones |-> <<>>,
   disableMilestonePopups |-> FALSE]

NoOp == [op |-> "init", ok |-> TRUE, arg |-> 0]
Op(name, ok, arg) == [op |-> name, ok |-> ok, arg |-> arg]

NoSummary == [present |-> FALSE, items |-> <<>>, totalValue |-> 0]
NoReport == [shown |-> FALSE, timePassed |-> 0, grown |-> 0]

\* the cheat effect: while cheatMode is on, money below the maximum is reset
CHEAT_MONEY == 999999999
CheatEffect(gs, cheat) ==
  IF cheat /\ gs.money < CHEAT_MONEY THEN [gs EXCEPT !.money = CHEAT_MONEY] ELSE gs

\* The plant dialog is modal: while it is open the page behind it takes no input.
UserReady == phase = "running" /\ plantSelectionModal = 0 /\ inputs < MaxInputs

(***************************************************************************)
(* Field simulation                                                        *)
(***************************************************************************)
\* a grow time taken as the plant gives it
cappedGrowTimeUncapped(plantKey) == plantDef[plantKey].growTime

\* Math.min(plant.growTime, MAX_GROW_TIME)
cappedGrowTime(plantKey) == Min(plantDef[plantKey].growTime, MAX_GROW_TIME)

\* progress >= 0.66 ? 3 : progress >= 0.33 ? 2 : 1 with progress = 1 - t / capped.
\* In doubles 1 - 0.34 < 0.66 and 1 - 0.67 < 0.33, so the two boundary ratios
\* fall into the lower stage: the comparisons on t / capped are strict.
NewStage(t, capped) ==
  IF 100 * t < 34 * capped THEN 3
  ELSE IF 100 * t < 67 * capped THEN 2
  ELSE 1

\* a tick that takes half a second off every field
ReductionHalf(gs, isWatered) == 500

\* 1000 * speed, speed = (isWatered ? ws.speedMult + wsBonus : 1) * gMult
Reduction(gs, isWatered) ==
  LET q4 == IF isWatered
            THEN getWaterStats(gs.waterUpgrades).speedMult4 + gs.rebirthShop.waterStrength
            ELSE 4
  IN 25 * q4 * getMilestoneGrowthMult10(gs.rebirths)

\* a tick that moves the stage up by one step when a threshold is crossed
TickFieldIncrement(field, idx, gs, watered) ==
  IF field.planted = "none" \/ field.plantTime <= 0 THEN field
  ELSE
    LET newTime == Max(0, field.plantTime - Reduction(gs, watered[idx] > 0)) IN
    IF field.planted \notin getAllPlants(gs.rebirths) THEN field
    ELSE [field EXCEPT !.plantTime = newTime,
                       !.stage = IF NewStage(newTime, cappedGrowTime(field.planted)) > @
                                 THEN @ + 1 ELSE @]

\* the body of prev.fields.map in the main game tick
TickField(field, idx, gs, watered) ==
  IF field.planted = "none" \/ field.plantTime <= 0 THEN field
  ELSE
    LET newTime == Max(0, field.plantTime - Reduction(gs, watered[idx] > 0)) IN
    IF field.planted \notin getAllPlants(gs.rebirths) THEN field
    ELSE [field EXCEPT !.plantTime = newTime,
                       !.stage = NewStage(newTime, cappedGrowTime(field.planted))]

\* one countdown step of wateredFields / waterCooldowns
TimerStep(timers) == [i \in DOMAIN timers |-> IF timers[i] - 1000 > 0 THEN timers[i] - 1000 ELSE 0]

\* a bonus that is due in every tick from the 10th rebirth on
MilestoneTokensDueAlways(prev) == prev.rebirths >= 10

\* prev.rebirths >= 10 && !prev.milestoneTokensClaimed
MilestoneTokensDue(prev) == prev.rebirths >= 10 /\ ~prev.milestoneTokensClaimed

\* The setInterval callback of the main game tick, one second after the last.
Tick ==
  /\ phase = "running"
  /\ now < Now0 + MaxTicks * 1000
  /\ now' = now + 1000
  /\ \E startEvent \in BOOLEAN, ev \in 1..MaxEventIdx :
       LET prev == gameState
           newFields == [i \in DOMAIN prev.fields |->
                           TickField(prev.fields[i], i, prev, wateredFields)]
           expired == prev.eventStartTime # 0 /\ now' - prev.eventStartTime > EVENT_DURATION
           est1 == IF expired THEN 0 ELSE prev.eventStartTime
           ety1 == IF expired THEN "none" ELSE prev.eventType
           lastEventEnd == IF prev.eventStartTime # 0
                           THEN prev.eventStartTime + EVENT_DURATION ELSE 0
           mayStart == est1 = 0 /\ (now' - lastEventEnd >= EVENT_INTERVAL \/ lastEventEnd = 0)
           starts == mayStart /\ startEvent
           claim == MilestoneTokensDue(prev)
       IN /\ (~mayStart) => (~startEvent /\ ev = 1)
          /\ (~startEvent) => ev = 1
          /\ gameState' = CheatEffect(
               [prev EXCEPT !.fields = newFields,
                            !.eventStartTime = IF starts THEN now' ELSE est1,
                            !.eventType = IF starts THEN eventTypes[ev] ELSE ety1,
                            !.rebirthTokens = IF claim THEN @ + 5 ELSE @,
                            !.milestoneTokensClaimed = IF claim THEN TRUE ELSE @],
               cheatMode)
  /\ wateredFields' = TimerStep(wateredFields)
  /\ waterCooldowns' = TimerStep(waterCooldowns)
  /\ lastOp' = Op("tick", TRUE, 0)
  /\ UNCHANGED <<harvestedInventory, farmerHarvestSummary, cheatMode, keepMoneyOnRebirth,
                 milestonePopup, plantSelectionModal, offlineReport, lastAutoHarvestRef,
                 lastWaterTimeRef, waterChainRef, pendingHarvest, storage, phase>>
  /\ UNCHANGED inputs
  /\ UNCHANGED pureVars

\* waterField(fieldIndex)
\* a waterField that takes no field for watered or cooling down
WaterBlockedNever(fieldIndex) == FALSE

\* the two early returns of waterField
WaterBlocked(fieldIndex) == waterCooldowns[fieldIndex] > 0 \/ wateredFields[fieldIndex] > 0

WaterField(fieldIndex) ==
  /\ UserReady
  /\ fieldIndex \in DOMAIN gameState.fields
  /\ IF WaterBlocked(fieldIndex)
     THEN /\ lastOp' = Op("waterField", FALSE, fieldIndex)
          /\ UNCHANGED <<wateredFields, waterCooldowns, lastWaterTimeRef, waterChainRef>>
     ELSE LET chain0 == IF now - lastWaterTimeRef > CHAIN_COOLDOWN_RESET THEN 0 ELSE waterChainRef
              chainDelay == chain0 * CHAIN_COOLDOWN_INCREMENT
              waterStats == getWaterStats(gameState.waterUpgrades)
              half == waterStats.range \div 2
              inRange == {idx \in (fieldIndex - half)..(fieldIndex + half) :
                            /\ idx \in DOMAIN gameState.fields
                            /\ gameState.fields[idx].unlocked
                            /\ gameState.fields[idx].planted # "none"
                            /\ wateredFields[idx] = 0
                            /\ waterCooldowns[idx] = 0}
              fieldsToWater == IF inRange = {} THEN {fieldIndex} ELSE inRange
          IN /\ waterChainRef' = chain0 + 1
             /\ lastWaterTimeRef' = now
             /\ wateredFields' = [i \in DOMAIN wateredFields |->
                                    IF i \in fieldsToWater THEN waterStats.duration
                                    ELSE wateredFields[i]]
             /\ waterCooldowns' = [i \in DOMAIN waterCooldowns |->
                                     IF i \in fieldsToWater
                                     THEN waterStats.duration + waterStats.cooldown + chainDelay
                                     ELSE waterCooldowns[i]]
             /\ lastOp' = Op("waterField", TRUE, fieldIndex)
  /\ UNCHANGED <<gameState, harvestedInventory, farmerHarvestSummary, cheatMode,
                 keepMoneyOnRebirth, milestonePopup, plantSelectionModal, offlineReport,
                 lastAutoHarvestRef, pendingHarvest, now, storage, phase>>
  /\ inputs' = inputs + 1
  /\ UNCHANGED pureVars

(***************************************************************************)
(* Harvest                                                                 *)
(***************************************************************************)
\* draws of one roll in the game actions
GameDraws == {d \in DrawSet : \A i \in DrawIdx : i > MaxRareIdx => ~d[i]}

\* results rollStackedVariants can return in the game actions
GameRollResults ==
  {rollStackedVariants(d1, d2, d3) : d1 \in GameDraws, d2 \in GameDraws, d3 \in GameDraws}

\* Object.values(discoveredVariants).reduce((a, b) => a + b.length, 0)
RECURSIVE SumCard(_, _)
SumCard(f, ks) ==
  IF ks = {} THEN 0
  ELSE LET k == CHOOSE x \in ks : TRUE IN Cardinality(f[k]) + SumCard(f, ks \ {k})

discoveredCount(gs) == SumCard(gs.discoveredVariants, PlantKeys)

\* a harvest that records its variants in place of the plant's list
DiscoverReplacing(disc, plantKey, variantResult) ==
  [disc EXCEPT ![plantKey] = {variantResult[i] : i \in 1..Len(variantResult)}]

\* the variants of a result are added to discoveredVariants[plantKey]
Discover(disc, plantKey, variantResult) ==
  [disc EXCEPT ![plantKey] = @ \cup {variantResult[i] : i \in 1..Len(variantResult)}]

\* Array.prototype.join('+') on a list of keys: a text is kept as the list of
\* its tokens, the keys and the separators between them
RECURSIVE JoinPlus(_)
JoinPlus(vs) ==
  IF Len(vs) <= 1 THEN vs ELSE <<Head(vs), "+">> \o JoinPlus(Tail(vs))

\* storeKey = variantResult.length > 1 ? variantResult.join('+') : variantResult[0]
StoreKey(variantResult) ==
  IF Len(variantResult) > 1 THEN JoinPlus(variantResult) ELSE <<variantResult[1]>>

\* variantKeyStr.split('+')
SplitKey(key) == SelectSeq(key, LAMBDA t : t # "+")

HIGet(hi, plantKey, key) == IF <<plantKey, key>> \in DOMAIN hi THEN hi[<<plantKey, key>>] ELSE 0

\* plantHarvest[storeKey] = (plantHarvest[storeKey] || 0) + 1
HIAdd(hi, plantKey, key) ==
  [x \in DOMAIN hi \cup {<<plantKey, key>>} |-> IF x = <<plantKey, key>> THEN HIGet(hi, plantKey, key) + 1 ELSE hi[x]]

\* count -= amount; entries that reach 0 or less are deleted
HISub(hi, plantKey, key, amount) ==
  LET left == HIGet(hi, plantKey, key) - amount
      dom == IF left <= 0 THEN DOMAIN hi \ {<<plantKey, key>>} ELSE DOMAIN hi
  IN [x \in dom |-> IF x = <<plantKey, key>> THEN left ELSE hi[x]]

\* finalValue of doHarvest: Math.floor(calculateStackedValue(...) * idxBonus)
HarvestValue(gs, plantKey, variantResult) ==
  ApplyIndexBonus(calculateStackedValue(plantDef[plantKey].value, variantResult, gs.rebirths),
                  indexMoneyBonus100(gs.rebirthShop.indexBonus, discoveredCount(gs)))

\* an auto-sell decision that does not ask who harvested
AutoSoldAnyHarvest(gs, isAuto, variantResult) ==
  LET hasRare == \E i \in 1..Len(variantResult) : variantResult[i] # "normal"
      shouldAutoSell == gs.autoSell # "off" /\ hasMilestone(gs.rebirths, "autoSell")
  IN shouldAutoSell /\ (\/ gs.autoSell = "all"
                        \/ (gs.autoSell = "normal" /\ ~hasRare)
                        \/ (gs.autoSell = "gold+" /\ hasRare))

\* the auto-sell decision of doHarvest
AutoSold(gs, isAuto, variantResult) ==
  LET hasRare == \E i \in 1..Len(variantResult) : variantResult[i] # "normal"
      shouldAutoSell == isAuto /\ gs.autoSell # "off" /\ hasMilestone(gs.rebirths, "autoSell")
  IN shouldAutoSell /\ (\/ gs.autoSell = "all"
                        \/ (gs.autoSell = "normal" /\ ~hasRare)
                        \/ (gs.autoSell = "gold+" /\ hasRare))

\* a check that takes every planted field as ripe
HarvestableAnyPlanted(field) == field.planted # "none"

\* doHarvest: !(!field?.planted || field.stage < 3 || field.plantTime > 0)
Harvestable(field) == field.planted # "none" /\ field.stage >= 3 /\ field.plantTime <= 0

\* a harvest that leaves the stage of the field as it was
HarvestedFieldKeepStage(field) == [field EXCEPT !.planted = "none", !.plantTime = 0]

\* { ...newFields[fieldIndex], planted: null, plantTime: 0, stage: 0 }
HarvestedField(field) == [field EXCEPT !.planted = "none", !.plantTime = 0, !.stage = 0]

\* the state updater of doHarvest(fieldIndex, isAuto); the write to
\* harvestedInventory is queued as a setTimeout(..., 0) callback
DoHarvestUpdate(fieldIndex, isAuto, variantResult) ==
  LET prev == gameState
      field == prev.fields[fieldIndex]
      plantKey == field.planted
      autoSold == AutoSold(prev, isAuto, variantResult)
      autoSellValue == IF autoSold THEN HarvestValue(prev, plantKey, variantResult) ELSE 0
  IN /\ gameState' = CheatEffect(
          [prev EXCEPT !.fields[fieldIndex] = HarvestedField(@),
                       !.discoveredVariants = Discover(@, plantKey, variantResult),
                       !.money = @ + autoSellValue],
          cheatMode)
     /\ pendingHarvest' = Append(pendingHarvest,
          [plantKey |-> plantKey, storeKey |-> StoreKey(variantResult), autoSold |-> autoSold])

\* harvest(fieldIndex): the manual harvest button
Harvest(fieldIndex) ==
  /\ UserReady
  /\ fieldIndex \in DOMAIN gameState.fields
  /\ IF Harvestable(gameState.fields[fieldIndex])
        /\ gameState.fields[fieldIndex].planted \in getAllPlants(gameState.rebirths)
     THEN /\ \E variantResult \in GameRollResults : DoHarvestUpdate(fieldIndex, FALSE, variantResult)
          /\ lastOp' = Op("harvest", TRUE, fieldIndex)
     ELSE /\ lastOp' = Op("harvest", FALSE, fieldIndex)
          /\ UNCHANGED <<gameState, pendingHarvest>>
  /\ UNCHANGED <<harvestedInventory, wateredFields, waterCooldowns, farmerHarvestSummary,
                 cheatMode, keepMoneyOnRebirth, milestonePopup, plantSelectionModal,
                 offlineReport, lastAutoHarvestRef, lastWaterTimeRef, waterChainRef,
                 now, storage, phase>>
  /\ inputs' = inputs + 1
  /\ UNCHANGED pureVars

\* an auto-harvest without a pause between two harvests
AutoHarvestTooSoonNever(t, last) == FALSE

\* now - lastAutoHarvestRef.current < 1000
AutoHarvestTooSoon(t, last) == t - last < 1000

\* the auto-harvest interval callback (every 500 ms while the effect is active)
AutoHarvest ==
  /\ phase = "running"
  /\ gameState.autoHarvest /\ hasMilestone(gameState.rebirths, "autoHarvest")
  /\ ~AutoHarvestTooSoon(now, lastAutoHarvestRef)
  /\ \E ripeIdx \in DOMAIN gameState.fields :
       /\ Harvestable(gameState.fields[ripeIdx])
       /\ \A j \in 1..(ripeIdx - 1) : ~Harvestable(gameState.fields[j])
       /\ lastAutoHarvestRef' = now
       /\ IF gameState.fields[ripeIdx].planted \in getAllPlants(gameState.rebirths)
          THEN \E variantResult \in GameRollResults : DoHarvestUpdate(ripeIdx, TRUE, variantResult)
          ELSE UNCHANGED <<gameState, pendingHarvest>>
       /\ lastOp' = Op("autoHarvest", TRUE, ripeIdx)
  /\ UNCHANGED <<harvestedInventory, wateredFields, waterCooldowns, farmerHarvestSummary,
                 cheatMode, keepMoneyOnRebirth, milestonePopup, plantSelectionModal,
                 offlineReport, lastWaterTimeRef, waterChainRef, now, storage, phase>>
  /\ UNCHANGED inputs
  /\ UNCHANGED pureVars

\* the setTimeout(..., 0) callback queued by doHarvest
HarvestTimeout ==
  /\ pendingHarvest # <<>>
  /\ LET h == Head(pendingHarvest) IN
       harvestedInventory' = IF h.autoSold THEN harvestedInventory
                             ELSE HIAdd(harvestedInventory, h.plantKey, h.storeKey)
  /\ pendingHarvest' = Tail(pendingHarvest)
  /\ lastOp' = Op("harvestTimeout", TRUE, 0)
  /\ UNCHANGED <<gameState, wateredFields, waterCooldowns, farmerHarvestSummary, cheatMode,
                 keepMoneyOnRebirth, milestonePopup, plantSelectionModal, offlineReport,
                 lastAutoHarvestRef, lastWaterTimeRef, waterChainRef, now, storage, phase>>
  /\ UNCHANGED inputs
  /\ UNCHANGED pureVars

(***************************************************************************)
(* Selling from the harvested inventory                                    *)
(***************************************************************************)
\* getVariantValueFromKey(plantKey, variantKeyStr)
getVariantValueFromKey(gs, plantKey, key) ==
  IF plantKey \notin getAllPlants(gs.rebirths) THEN 0
  ELSE ApplyIndexBonus(calculateStackedValue(plantDef[plantKey].value, SplitKey(key), gs.rebirths),
                       indexMoneyBonus100(gs.rebirthShop.indexBonus, discoveredCount(gs)))

\* sellHarvested(plantKey, variantKeyStr, amount)
SellHarvested(plantKey, key, amount) ==
  /\ UserReady
  /\ IF HIGet(harvestedInventory, plantKey, key) < amount
     THEN /\ lastOp' = Op("sellHarvested", FALSE, amount)
          /\ UNCHANGED <<gameState, harvestedInventory>>
     ELSE /\ harvestedInventory' = HISub(harvestedInventory, plantKey, key, amount)
          /\ gameState' = CheatEffect(
               [gameState EXCEPT !.money = @ + getVariantValueFromKey(gameState, plantKey, key) * amount],
               cheatMode)
          /\ lastOp' = Op("sellHarvested", TRUE, amount)
  /\ UNCHANGED <<wateredFields, waterCooldowns, farmerHarvestSummary, cheatMode,
                 keepMoneyOnRebirth, milestonePopup, plantSelectionModal, offlineReport,
                 lastAutoHarvestRef, lastWaterTimeRef, waterChainRef, pendingHarvest,
                 now, storage, phase>>
  /\ inputs' = inputs + 1
  /\ UNCHANGED pureVars

ShouldSell(filter, key) ==
  \/ filter = "all"
  \/ (filter = "normal" /\ key = <<"normal">>)
  \/ (filter = "rare" /\ key # <<"normal">>)

RECURSIVE SumSellValue(_, _, _)
SumSellValue(gs, hi, keys) ==
  IF keys = {} THEN 0
  ELSE LET x == CHOOSE y \in keys : TRUE
       IN getVariantValueFromKey(gs, x[1], x[2]) * hi[x] + SumSellValue(gs, hi, keys \ {x})

\* sellAll(filter)
SellAll(filter) ==
  /\ UserReady
  /\ LET sold == {x \in DOMAIN harvestedInventory : ShouldSell(filter, x[2])} IN
     IF sold = {}
     THEN /\ lastOp' = Op("sellAll", FALSE, 0)
          /\ UNCHANGED <<gameState, harvestedInventory>>
     ELSE /\ harvestedInventory' = [x \in DOMAIN harvestedInventory \ sold |-> harvestedInventory[x]]
          /\ gameState' = CheatEffect(
               [gameState EXCEPT !.money = @ + SumSellValue(gameState, harvestedInventory, sold)],
               cheatMode)
          /\ lastOp' = Op("sellAll", TRUE, 0)
  /\ UNCHANGED <<wateredFields, waterCooldowns, farmerHarvestSummary, cheatMode,
                 keepMoneyOnRebirth, milestonePopup, plantSelectionModal, offlineReport,
                 lastAutoHarvestRef, lastWaterTimeRef, waterChainRef, pendingHarvest,
                 now, storage, phase>>
  /\ inputs' = inputs + 1
  /\ UNCHANGED pureVars

(***************************************************************************)
(* Planting and fields                                                     *)
(***************************************************************************)
\* selectField(index): the "Pflanzen" button, rendered on unlocked empty fields
SelectField(index) ==
  /\ UserReady
  /\ index \in DOMAIN gameState.fields
  /\ gameState.fields[index].unlocked /\ gameState.fields[index].planted = "none"
  /\ IF \E k \in PlantKeys : gameState.inventory[k] > 0
     THEN /\ plantSelectionModal' = index
          /\ lastOp' = Op("selectField", TRUE, index)
     ELSE /\ plantSelectionModal' = plantSelectionModal
          /\ lastOp' = Op("selectField", FALSE, index)
  /\ UNCHANGED <<gameState, harvestedInventory, wateredFields, waterCooldowns,
                 farmerHarvestSummary, cheatMode, keepMoneyOnRebirth, milestonePopup,
                 offlineReport, lastAutoHarvestRef, lastWaterTimeRef, waterChainRef,
                 pendingHarvest, now, storage, phase>>
  /\ inputs' = inputs + 1
  /\ UNCHANGED pureVars

\* plantSeed(plantKey, plantSelectionModal.fieldIndex), from the plant dialog;
\* a plant missing from allPlants throws before any state is set
PlantSeed(plantKey) ==
  /\ phase = "running"
  /\ inputs < MaxInputs
  /\ plantSelectionModal # 0
  /\ IF gameState.inventory[plantKey] > 0 /\ plantKey \in getAllPlants(gameState.rebirths)
     THEN /\ gameState' = CheatEffect(
               [gameState EXCEPT
                  !.fields[plantSelectionModal] =
                     [@ EXCEPT !.planted = plantKey,
                               !.plantTime = cappedGrowTime(plantKey),
                               !.stage = 1],
                  !.inventory[plantKey] = @ - 1],
               cheatMode)
          /\ plantSelectionModal' = 0
          /\ lastOp' = Op("plantSeed", TRUE, <<plantKey, plantSelectionModal>>)
     ELSE /\ UNCHANGED <<gameState, plantSelectionModal>>
          /\ lastOp' = Op("plantSeed", FALSE, <<plantKey, plantSelectionModal>>)
  /\ UNCHANGED <<harvestedInventory, wateredFields, waterCooldowns, farmerHarvestSummary,
                 cheatMode, keepMoneyOnRebirth, milestonePopup, offlineReport,
                 lastAutoHarvestRef, lastWaterTimeRef, waterChainRef, pendingHarvest,
                 now, storage, phase>>
  /\ inputs' = inputs + 1
  /\ UNCHANGED pureVars

\* plantSeed(plantKey, fieldIndex) as the handler takes it, for any field of
\* the farm: the handler looks at the seed count only, never at the field
PlantSeedAt(plantKey, fieldIndex) ==
  /\ phase = "running"
  /\ inputs < MaxInputs
  /\ fieldIndex \in DOMAIN gameState.fields
  /\ IF gameState.inventory[plantKey] > 0 /\ plantKey \in getAllPlants(gameState.rebirths)
     THEN /\ gameState' = CheatEffect(
               [gameState EXCEPT
                  !.fields[fieldIndex] =
                     [@ EXCEPT !.planted = plantKey,
                               !.plantTime = cappedGrowTime(plantKey),
                               !.stage = 1],
                  !.inventory[plantKey] = @ - 1],
               cheatMode)
          /\ plantSelectionModal' = 0
          /\ lastOp' = Op("plantSeed", TRUE, <<plantKey, fieldIndex>>)
     ELSE /\ UNCHANGED <<gameState, plantSelectionModal>>
          /\ lastOp' = Op("plantSeed", FALSE, <<plantKey, fieldIndex>>)
  /\ UNCHANGED <<harvestedInventory, wateredFields, waterCooldowns, farmerHarvestSummary,
                 cheatMode, keepMoneyOnRebirth, milestonePopup, offlineReport,
                 lastAutoHarvestRef, lastWaterTimeRef, waterChainRef, pendingHarvest,
                 now, storage, phase>>
  /\ inputs' = inputs + 1
  /\ UNCHANGED pureVars

\* newFields after buyField(index): padded with locked fields up to index
PadFields(fields, index) ==
  [i \in 1..Max(Len(fields), index) |->
     IF i = index THEN EmptyField
     ELSE IF i <= Len(fields) THEN fields[i]
     ELSE LockedField]

FieldLocked(gs, index) == IF index > Len(gs.fields) THEN TRUE ELSE ~gs.fields[index].unlocked

\* buyField(index): the "Kaufen" button, rendered on locked field slots
BuyField(index) ==
  /\ UserReady
  /\ index \in 1..MaxFieldIdx
  /\ FieldLocked(gameState, index)
  /\ IF gameState.money >= fieldPrices[index]
     THEN /\ gameState' = CheatEffect(
               [gameState EXCEPT !.fields = PadFields(@, index),
                                 !.money = @ - fieldPrices[index]],
               cheatMode)
          /\ lastOp' = Op("buyField", TRUE, index)
     ELSE /\ UNCHANGED gameState
          /\ lastOp' = Op("buyField", FALSE, index)
  /\ UNCHANGED <<harvestedInventory, wateredFields, waterCooldowns, farmerHarvestSummary,
                 cheatMode, keepMoneyOnRebirth, milestonePopup, plantSelectionModal,
                 offlineReport, lastAutoHarvestRef, lastWaterTimeRef, waterChainRef,
                 pendingHarvest, now, storage, phase>>
  /\ inputs' = inputs + 1
  /\ UNCHANGED pureVars

\* buyField(index) as the handler takes it, for any field slot: the handler
\* looks at the money only, never at the field
BuyFieldAt(index) ==
  /\ UserReady
  /\ index \in 1..MaxFieldIdx
  /\ IF gameState.money >= fieldPrices[index]
     THEN /\ gameState' = CheatEffect(
               [gameState EXCEPT !.fields = PadFields(@, index),
                                 !.money = @ - fieldPrices[index]],
               cheatMode)
          /\ lastOp' = Op("buyField", TRUE, index)
     ELSE /\ UNCHANGED gameState
          /\ lastOp' = Op("buyField", FALSE, index)
  /\ UNCHANGED <<harvestedInventory, wateredFields, waterCooldowns, farmerHarvestSummary,
                 cheatMode, keepMoneyOnRebirth, milestonePopup, plantSelectionModal,
                 offlineReport, lastAutoHarvestRef, lastWaterTimeRef, waterChainRef,
                 pendingHarvest, now, storage, phase>>
  /\ inputs' = inputs + 1
  /\ UNCHANGED pureVars

\* buyRebirthField()
BuyRebirthField ==
  /\ UserReady
  /\ Len(gameState.fields) + 1 \in FieldIdx
  /\ LET idx == gameState.rebirthFieldsBought IN
     IF idx < Len(rebirthFieldCosts) /\ gameState.rebirthTokens >= rebirthFieldCosts[idx + 1]
     THEN /\ gameState' = CheatEffect(
               [gameState EXCEPT !.rebirthTokens = @ - rebirthFieldCosts[idx + 1],
                                 !.rebirthFieldsBought = @ + 1,
                                 !.fields = Append(@, EmptyField)],
               cheatMode)
          /\ lastOp' = Op("buyRebirthField", TRUE, idx)
     ELSE /\ UNCHANGED gameState
          /\ lastOp' = Op("buyRebirthField", FALSE, idx)
  /\ UNCHANGED <<harvestedInventory, wateredFields, waterCooldowns, farmerHarvestSummary,
                 cheatMode, keepMoneyOnRebirth, milestonePopup, plantSelectionModal,
                 offlineReport, lastAutoHarvestRef, lastWaterTimeRef, waterChainRef,
                 pendingHarvest, now, storage, phase>>
  /\ inputs' = inputs + 1
  /\ UNCHANGED pureVars

(***************************************************************************)
(* Prestige ("rebirth")                                                    *)
(***************************************************************************)
\* rebirthMilestones.find(m => newRebirths >= m.rebirth && old < m.rebirth && !seen.includes(m.key))
NewMilestoneIdx(gs, newRebirths) ==
  LET hit(i) == /\ newRebirths >= rebirthMilestones[i].rebirth
                /\ gs.rebirths < rebirthMilestones[i].rebirth
                /\ ~InSeq(rebirthMilestones[i].key, gs.seenMilestones)
  IN IF \E i \in 1..Len(rebirthMilestones) : hit(i)
     THEN CHOOSE i \in 1..Len(rebirthMilestones) : hit(i) /\ \A j \in 1..(i - 1) : ~hit(j)
     ELSE 0

\* a rebirth that starts the farmer afresh
PreservedFarmerReset(farmer) == defaultFarmer

\* a rebirth that leaves the farmer's running jobs in place
PreservedFarmerKeepSlots(farmer) == farmer

\* newState.farmer = gameState.farmer.unlocked ? { ...gameState.farmer, slots: [] } : ...
PreservedFarmer(farmer) ==
  IF farmer.unlocked THEN [farmer EXCEPT !.slots = <<>>] ELSE farmer

\* a fresh state that keeps the seeds of the run before
FreshStateKeepSeeds(gs, newRebirths) ==
  [createDefaultState(gs.rebirthShop, newRebirths, gs.rebirthFieldsBought)
     EXCEPT !.inventory = gs.inventory]

\* a fresh state that keeps the water upgrades of the run before
FreshStateKeepWater(gs, newRebirths) ==
  [createDefaultState(gs.rebirthShop, newRebirths, gs.rebirthFieldsBought)
     EXCEPT !.waterUpgrades = gs.waterUpgrades]

\* createDefaultState(preservedShop, newRebirths, preservedRebirthFields)
FreshState(gs, newRebirths) ==
  createDefaultState(gs.rebirthShop, newRebirths, gs.rebirthFieldsBought)

\* newState of doRebirth(multiCount), before the milestone bookkeeping
RebirthState(gs, multiCount, keepMoney, cheat) ==
  LET newRebirths == gs.rebirths + multiCount
      fresh == FreshState(gs, newRebirths)
  IN [fresh EXCEPT
        !.rebirths = newRebirths,
        !.rebirthTokens = gs.rebirthTokens + RebirthTotalTokens(gs.rebirths, multiCount),
        !.discoveredVariants = gs.discoveredVariants,
        !.rebirthShop = gs.rebirthShop,
        !.rebirthFieldsBought = gs.rebirthFieldsBought,
        !.milestoneTokensClaimed = gs.milestoneTokensClaimed,
        !.autoHarvest = IF hasMilestone(newRebirths, "autoHarvest") THEN gs.autoHarvest ELSE FALSE,
        !.autoSell = IF hasMilestone(newRebirths, "autoSell") THEN gs.autoSell ELSE "off",
        !.autoWater = IF hasMilestone(newRebirths, "autoWater") THEN gs.autoWater ELSE FALSE,
        !.farmer = PreservedFarmer(gs.farmer),
        !.seenMilestones = gs.seenMilestones,
        !.disableMilestonePopups = gs.disableMilestonePopups,
        !.money = IF cheat THEN CHEAT_MONEY
                  ELSE IF keepMoney THEN gs.money
                  ELSE @]

\* doRebirth(multiCount)
DoRebirth(multiCount) ==
  /\ UserReady
  /\ gameState.rebirths + multiCount <= MaxRebirths
  /\ IF ~cheatMode /\ gameState.money < RebirthTotalCost(gameState.rebirths, multiCount)
     THEN /\ lastOp' = Op("doRebirth", FALSE, multiCount)
          /\ UNCHANGED <<gameState, harvestedInventory, milestonePopup>>
     ELSE LET newRebirths == gameState.rebirths + multiCount
              newState == RebirthState(gameState, multiCount, keepMoneyOnRebirth, cheatMode)
              m == IF gameState.disableMilestonePopups THEN 0
                   ELSE NewMilestoneIdx(gameState, newRebirths)
          IN /\ gameState' = CheatEffect(
                  IF m = 0 THEN newState
                  ELSE [newState EXCEPT !.seenMilestones = Append(@, rebirthMilestones[m].key)],
                  cheatMode)
             /\ milestonePopup' = IF m = 0 THEN milestonePopup ELSE rebirthMilestones[m].key
             /\ harvestedInventory' = <<>>
             /\ lastOp' = Op("doRebirth", TRUE, multiCount)
  /\ UNCHANGED <<wateredFields, waterCooldowns, farmerHarvestSummary, cheatMode,
                 keepMoneyOnRebirth, plantSelectionModal, offlineReport, lastAutoHarvestRef,
                 lastWaterTimeRef, waterChainRef, pendingHarvest, now, storage, phase>>
  /\ inputs' = inputs + 1
  /\ UNCHANGED pureVars

\* the admin switch "infinite money"
SetCheatMode(c) ==
  /\ UserReady
  /\ c # cheatMode
  /\ cheatMode' = c
  /\ gameState' = IF c THEN [gameState EXCEPT !.money = CHEAT_MONEY] ELSE gameState
  /\ lastOp' = Op("setCheatMode", TRUE, 0)
  /\ UNCHANGED <<harvestedInventory, wateredFields, waterCooldowns, farmerHarvestSummary,
                 keepMoneyOnRebirth, milestonePopup, plantSelectionModal, offlineReport,
                 lastAutoHarvestRef, lastWaterTimeRef, waterChainRef, pendingHarvest,
                 now, storage, phase>>
  /\ inputs' = inputs + 1
  /\ UNCHANGED pureVars

\* the admin switch "keep money on rebirth"
SetKeepMoneyOnRebirth(b) ==
  /\ UserReady
  /\ b # keepMoneyOnRebirth
  /\ keepMoneyOnRebirth' = b
  /\ lastOp' = Op("setKeepMoneyOnRebirth", TRUE, 0)
  /\ UNCHANGED <<gameState, harvestedInventory, wateredFields, waterCooldowns,
                 farmerHarvestSummary, cheatMode, milestonePopup, plantSelectionModal,
                 offlineReport, lastAutoHarvestRef, lastWaterTimeRef, waterChainRef,
                 pendingHarvest, now, storage, phase>>
  /\ inputs' = inputs + 1
  /\ UNCHANGED pureVars

(***************************************************************************)
(* Farmer                                                                  *)
(***************************************************************************)
\* a job that counts as complete whatever its age
SlotDoneAlways(slot, t) == TRUE

SlotDone(slot, t) == t - slot.startTime >= slot.duration

\* the updater of setFarmerHarvestSummary in collectFarmerSlot
AddToSummary(summary, item) ==
  IF ~summary.present THEN [present |-> TRUE, items |-> <<item>>, totalValue |-> item.value]
  ELSE LET same(i) == /\ summary.items[i].plantKey = item.plantKey
                      /\ summary.items[i].variants = item.variants
       IN IF \E i \in 1..Len(summary.items) : same(i)
          THEN LET e == CHOOSE i \in 1..Len(summary.items) :
                          same(i) /\ \A j \in 1..(i - 1) : ~same(j)
               IN [summary EXCEPT !.items[e].count = @ + 1, !.totalValue = @ + item.value]
          ELSE [summary EXCEPT !.items = Append(@, item), !.totalValue = @ + item.value]

RemoveAt(seq, idx) == [i \in 1..(Len(seq) - 1) |-> IF i < idx THEN seq[i] ELSE seq[i + 1]]

\* collectFarmerSlot(slotIndex)
CollectFarmerSlot(slotIndex) ==
  /\ UserReady
  /\ slotIndex \in 1..Len(gameState.farmer.slots)
  /\ LET slot == gameState.farmer.slots[slotIndex] IN
     IF SlotDone(slot, now) /\ slot.plantKey \in getAllPlants(gameState.rebirths)
     THEN \E variantResult \in GameRollResults :
            LET value == calculateStackedValue(plantDef[slot.plantKey].value, variantResult,
                                               gameState.rebirths)
                item == [plantKey |-> slot.plantKey, variants |-> StoreKey(variantResult),
                         count |-> 1, value |-> value]
            IN /\ farmerHarvestSummary' = AddToSummary(farmerHarvestSummary, item)
               /\ harvestedInventory' = HIAdd(harvestedInventory, slot.plantKey, StoreKey(variantResult))
               /\ gameState' = CheatEffect(
                    [gameState EXCEPT
                       !.discoveredVariants = Discover(@, slot.plantKey, variantResult),
                       !.farmer.slots = RemoveAt(@, slotIndex)],
                    cheatMode)
               /\ lastOp' = Op("collectFarmerSlot", TRUE, slotIndex)
     ELSE /\ lastOp' = Op("collectFarmerSlot", FALSE, slotIndex)
          /\ UNCHANGED <<gameState, harvestedInventory, farmerHarvestSummary>>
  /\ UNCHANGED <<wateredFields, waterCooldowns, cheatMode, keepMoneyOnRebirth, milestonePopup,
                 plantSelectionModal, offlineReport, lastAutoHarvestRef, lastWaterTimeRef,
                 waterChainRef, pendingHarvest, now, storage, phase>>
  /\ inputs' = inputs + 1
  /\ UNCHANGED pureVars

\* doneIndices.forEach(i => collectFarmerSlot(i)): every call reads its slot
\* from the rendered state snap, and its updaters run on the state at hand
RECURSIVE CollectEach(_, _, _, _, _)
CollectEach(doneIndices, rolls, k, acc, snap) ==
  IF k > Len(doneIndices) THEN acc
  ELSE LET slotIndex == doneIndices[k]
           slot == snap.farmer.slots[slotIndex]
       IN IF slot.plantKey \notin getAllPlants(snap.rebirths)
          THEN CollectEach(doneIndices, rolls, k + 1, acc, snap)
          ELSE LET variantResult == rolls[k]
                   value == calculateStackedValue(plantDef[slot.plantKey].value,
                                                  variantResult, snap.rebirths)
                   item == [plantKey |-> slot.plantKey,
                            variants |-> StoreKey(variantResult),
                            count |-> 1, value |-> value]
               IN CollectEach(doneIndices, rolls, k + 1,
                    [summary |-> AddToSummary(acc.summary, item),
                     hi |-> HIAdd(acc.hi, slot.plantKey, StoreKey(variantResult)),
                     gs |-> [acc.gs EXCEPT
                               !.discoveredVariants = Discover(@, slot.plantKey, variantResult),
                               !.farmer.slots = IF slotIndex <= Len(@)
                                                THEN RemoveAt(@, slotIndex) ELSE @]],
                    snap)

\* collectAllFarmerSlots()
CollectAllFarmerSlots ==
  /\ UserReady
  /\ LET slots == gameState.farmer.slots
         reversed == [j \in 1..Len(slots) |-> Len(slots) + 1 - j]
         doneIndices == SelectSeq(reversed, LAMBDA i : SlotDone(slots[i], now))
     IN \E rolls \in [1..Len(doneIndices) -> GameRollResults] :
          LET acc == CollectEach(doneIndices, rolls, 1,
                                 [summary |-> NoSummary, hi |-> harvestedInventory,
                                  gs |-> gameState],
                                 gameState)
          IN /\ farmerHarvestSummary' = acc.summary
             /\ harvestedInventory' = acc.hi
             /\ gameState' = CheatEffect(acc.gs, cheatMode)
             /\ lastOp' = Op("collectAllFarmerSlots", TRUE, Len(doneIndices))
  /\ UNCHANGED <<wateredFields, waterCooldowns, cheatMode, keepMoneyOnRebirth, milestonePopup,
                 plantSelectionModal, offlineReport, lastAutoHarvestRef, lastWaterTimeRef,
                 waterChainRef, pendingHarvest, now, storage, phase>>
  /\ inputs' = inputs + 1
  /\ UNCHANGED pureVars

\* the updater of setHarvestedInventory in sellFarmerHarvest: an item whose
\* units are still there takes its count from them, entries that reach 0 or
\* less are deleted
RECURSIVE SummaryTaken(_, _)
SummaryTaken(hi, items) ==
  IF items = <<>> THEN hi
  ELSE LET item == Head(items)
       IN SummaryTaken(IF HIGet(hi, item.plantKey, item.variants) # 0
                       THEN HISub(hi, item.plantKey, item.variants, item.count)
                       ELSE hi,
                       Tail(items))

\* totalValue of sellFarmerHarvest: item.value * item.count over all items,
\* added outside the test for the units
RECURSIVE SummaryValue(_)
SummaryValue(items) ==
  IF items = <<>> THEN 0
  ELSE Head(items).value * Head(items).count + SummaryValue(Tail(items))

\* sellFarmerHarvest(): totalValue is summed inside the updater of
\* harvestedInventory and read by the updater of gameState.  React runs the
\* first updater at the call when no update is pending, and both updaters at
\* the next render otherwise, the one of gameState (the first hook) first: the
\* money grows by totalValue or by 0.
SellFarmerHarvest ==
  /\ phase = "running" /\ plantSelectionModal = 0 /\ inputs < MaxSaleInputs
  /\ IF ~farmerHarvestSummary.present
     THEN /\ lastOp' = Op("sellFarmerHarvest", FALSE, 0)
          /\ UNCHANGED <<gameState, harvestedInventory, farmerHarvestSummary>>
     ELSE \E credited \in {SummaryValue(farmerHarvestSummary.items), 0} :
            /\ harvestedInventory' = SummaryTaken(harvestedInventory, farmerHarvestSummary.items)
            /\ gameState' = CheatEffect([gameState EXCEPT !.money = @ + credited], cheatMode)
            /\ farmerHarvestSummary' = NoSummary
            /\ lastOp' = Op("sellFarmerHarvest", TRUE, credited)
  /\ UNCHANGED <<wateredFields, waterCooldowns, cheatMode, keepMoneyOnRebirth, milestonePopup,
                 plantSelectionModal, offlineReport, lastAutoHarvestRef, lastWaterTimeRef,
                 waterChainRef, pendingHarvest, now, storage, phase>>
  /\ inputs' = inputs + 1
  /\ UNCHANGED pureVars

(***************************************************************************)
(* Shops and the farmer's seeds                                            *)
(***************************************************************************)
\* waterUpgradeDefs: maxLevel and costs per upgrade
waterUpgradeDefs ==
  [key \in {"duration", "strength", "range", "cooldownReduction"} |->
     CASE key = "duration" -> [maxLevel |-> 5, costs |-> <<200, 400, 600, 800, 1000>>]
       [] key = "strength" -> [maxLevel |-> 3, costs |-> <<1000, 5000, 25000>>]
       [] key = "range"    -> [maxLevel |-> 2, costs |-> <<10000, 50000>>]
       [] OTHER            -> [maxLevel |-> 5, costs |-> <<3000, 6000, 12000, 24000, 48000>>]]

\* rebirthShopDefs: maxLevel and costs per upgrade held by RebirthShopState
rebirthShopDefs ==
  [key \in {"offlineEfficiency", "variantChance", "eventBonus", "waterStrength",
            "fieldStart", "indexBonus"} |->
     CASE key = "offlineEfficiency" -> [maxLevel |-> 3, costs |-> <<2, 4, 6>>]
       [] key = "variantChance"     -> [maxLevel |-> 5, costs |-> <<3, 5, 8, 12, 18>>]
       [] key = "eventBonus"        -> [maxLevel |-> 3, costs |-> <<5, 10, 20>>]
       [] key = "waterStrength"     -> [maxLevel |-> 4, costs |-> <<4, 7, 12, 20>>]
       [] key = "fieldStart"        -> [maxLevel |-> 3, costs |-> <<3, 6, 12>>]
       [] OTHER                     -> [maxLevel |-> 5, costs |-> <<2, 3, 5, 8, 12>>]]

\* getFarmerUpgradeCost: 1 + floor(level^1.15 / 12), for the levels below 29
getFarmerUpgradeCost(level) ==
  IF level < 9 THEN 1 ELSE IF level < 16 THEN 2 ELSE IF level < 23 THEN 3 ELSE 4

\* price of buySeed: halved for the first seed of a plant after the
\* firstPlantDisc milestone, until the first purchase of the run
SeedPrice(gs, plantKey) ==
  IF hasMilestone(gs.rebirths, "firstPlantDisc") /\ ~gs.startMoneyUsed
     /\ gs.inventory[plantKey] = 0
  THEN plantDef[plantKey].price \div 2
  ELSE plantDef[plantKey].price

\* a purchase that checks the price of one seed, whatever the amount
SeedCostOne(gs, plantKey, amount) == SeedPrice(gs, plantKey)

\* totalCost of buySeed
SeedCost(gs, plantKey, amount) == SeedPrice(gs, plantKey) * amount

\* buySeed(plantKey, amount)
BuySeed(plantKey, amount) ==
  /\ UserReady
  /\ IF gameState.money < SeedCost(gameState, plantKey, amount)
     THEN /\ lastOp' = Op("buySeed", FALSE, <<plantKey, amount>>)
          /\ UNCHANGED gameState
     ELSE /\ gameState' = CheatEffect(
               [gameState EXCEPT
                  !.money = @ - SeedPrice(gameState, plantKey) * amount,
                  !.inventory[plantKey] = @ + amount,
                  !.startMoneyUsed = TRUE],
               cheatMode)
          /\ lastOp' = Op("buySeed", TRUE, <<plantKey, amount>>)
  /\ UNCHANGED <<harvestedInventory, wateredFields, waterCooldowns, farmerHarvestSummary,
                 cheatMode, keepMoneyOnRebirth, milestonePopup, plantSelectionModal,
                 offlineReport, lastAutoHarvestRef, lastWaterTimeRef, waterChainRef,
                 pendingHarvest, now, storage, phase>>
  /\ inputs' = inputs + 1
  /\ UNCHANGED pureVars

\* buyWaterUpgrade(key)
BuyWaterUpgrade(key) ==
  /\ UserReady
  /\ LET def == waterUpgradeDefs[key]
         currentLevel == gameState.waterUpgrades[key]
     IN IF currentLevel >= def.maxLevel
        THEN /\ lastOp' = Op("buyWaterUpgrade", FALSE, 0)
             /\ UNCHANGED gameState
        ELSE IF gameState.money < def.costs[currentLevel + 1]
        THEN /\ lastOp' = Op("buyWaterUpgrade", FALSE, def.costs[currentLevel + 1])
             /\ UNCHANGED gameState
        ELSE /\ gameState' = CheatEffect(
                  [gameState EXCEPT !.money = @ - def.costs[currentLevel + 1],
                                    !.waterUpgrades[key] = @ + 1],
                  cheatMode)
             /\ lastOp' = Op("buyWaterUpgrade", TRUE, def.costs[currentLevel + 1])
  /\ UNCHANGED <<harvestedInventory, wateredFields, waterCooldowns, farmerHarvestSummary,
                 cheatMode, keepMoneyOnRebirth, milestonePopup, plantSelectionModal,
                 offlineReport, lastAutoHarvestRef, lastWaterTimeRef, waterChainRef,
                 pendingHarvest, now, storage, phase>>
  /\ inputs' = inputs + 1
  /\ UNCHANGED pureVars

\* buyRebirthUpgrade(key)
BuyRebirthUpgrade(key) ==
  /\ UserReady
  /\ LET def == rebirthShopDefs[key]
         currentLevel == gameState.rebirthShop[key]
     IN IF currentLevel >= def.maxLevel
        THEN /\ lastOp' = Op("buyRebirthUpgrade", FALSE, 0)
             /\ UNCHANGED gameState
        ELSE IF gameState.rebirthTokens < def.costs[currentLevel + 1]
        THEN /\ lastOp' = Op("buyRebirthUpgrade", FALSE, def.costs[currentLevel + 1])
             /\ UNCHANGED gameState
        ELSE /\ gameState' = CheatEffect(
                  [gameState EXCEPT !.rebirthTokens = @ - def.costs[currentLevel + 1],
                                    !.rebirthShop[key] = @ + 1],
                  cheatMode)
             /\ lastOp' = Op("buyRebirthUpgrade", TRUE, def.costs[currentLevel + 1])
  /\ UNCHANGED <<harvestedInventory, wateredFields, waterCooldowns, farmerHarvestSummary,
                 cheatMode, keepMoneyOnRebirth, milestonePopup, plantSelectionModal,
                 offlineReport, lastAutoHarvestRef, lastWaterTimeRef, waterChainRef,
                 pendingHarvest, now, storage, phase>>
  /\ inputs' = inputs + 1
  /\ UNCHANGED pureVars

\* buyFarmer()
BuyFarmer ==
  /\ UserReady
  /\ IF gameState.rebirthTokens < 3
     THEN /\ lastOp' = Op("buyFarmer", FALSE, 3)
          /\ UNCHANGED gameState
     ELSE /\ gameState' = CheatEffect(
               [gameState EXCEPT
                  !.rebirthTokens = @ - 3,
                  !.farmer = [unlocked |-> TRUE, level |-> 1, slots |-> <<>>,
                              inventory |-> <<>>, autoReplant |-> TRUE]],
               cheatMode)
          /\ lastOp' = Op("buyFarmer", TRUE, 3)
  /\ UNCHANGED <<harvestedInventory, wateredFields, waterCooldowns, farmerHarvestSummary,
                 cheatMode, keepMoneyOnRebirth, milestonePopup, plantSelectionModal,
                 offlineReport, lastAutoHarvestRef, lastWaterTimeRef, waterChainRef,
                 pendingHarvest, now, storage, phase>>
  /\ inputs' = inputs + 1
  /\ UNCHANGED pureVars

\* upgradeFarmer()
UpgradeFarmer ==
  /\ UserReady
  /\ LET currentLevel == gameState.farmer.level
         cost == getFarmerUpgradeCost(currentLevel)
     IN IF currentLevel >= 9999 \/ gameState.rebirthTokens < cost
        THEN /\ lastOp' = Op("upgradeFarmer", FALSE, cost)
             /\ UNCHANGED gameState
        ELSE /\ gameState' = CheatEffect(
                  [gameState EXCEPT !.rebirthTokens = @ - cost,
                                    !.farmer.level = currentLevel + 1],
                  cheatMode)
             /\ lastOp' = Op("upgradeFarmer", TRUE, cost)
  /\ UNCHANGED <<harvestedInventory, wateredFields, waterCooldowns, farmerHarvestSummary,
                 cheatMode, keepMoneyOnRebirth, milestonePopup, plantSelectionModal,
                 offlineReport, lastAutoHarvestRef, lastWaterTimeRef, waterChainRef,
                 pendingHarvest, now, storage, phase>>
  /\ inputs' = inputs + 1
  /\ UNCHANGED pureVars

\* farmer.inventory.findIndex(s => s.plantKey === plantKey), 0 for -1
FarmerInvIdx(inv, plantKey) ==
  IF \E i \in 1..Len(inv) : inv[i].plantKey = plantKey
  THEN CHOOSE i \in 1..Len(inv) :
         inv[i].plantKey = plantKey /\ \A j \in 1..(i - 1) : inv[j].plantKey # plantKey
  ELSE 0

\* a farmer that takes any number of seed types
FarmerInvFullNever(inv, plantKey) == FALSE

\* existingIdx < 0 && gameState.farmer.inventory.length >= 3
FarmerInvFull(inv, plantKey) == FarmerInvIdx(inv, plantKey) = 0 /\ Len(inv) >= 3

\* a check that only asks for a positive amount
SeedsShortNoStock(gs, plantKey, amount) == amount <= 0

\* (gameState.inventory[plantKey] || 0) < amount || amount <= 0
SeedsShort(gs, plantKey, amount) == gs.inventory[plantKey] < amount \/ amount <= 0

\* newInv of giveSeedsToFarmer
FarmerInvAdd(inv, plantKey, amount) ==
  LET eIdx == FarmerInvIdx(inv, plantKey)
  IN IF eIdx > 0 THEN [inv EXCEPT ![eIdx].amount = @ + amount]
     ELSE Append(inv, [plantKey |-> plantKey, amount |-> amount])

\* giveSeedsToFarmer(plantKey, amount)
GiveSeedsToFarmer(plantKey, amount) ==
  /\ UserReady
  /\ IF \/ plantKey \notin getAllPlants(gameState.rebirths)
        \/ FarmerInvFull(gameState.farmer.inventory, plantKey)
        \/ SeedsShort(gameState, plantKey, amount)
     THEN /\ lastOp' = Op("giveSeedsToFarmer", FALSE, <<plantKey, amount>>)
          /\ UNCHANGED gameState
     ELSE /\ gameState' = CheatEffect(
               [gameState EXCEPT
                  !.inventory[plantKey] = @ - amount,
                  !.farmer.inventory = FarmerInvAdd(@, plantKey, amount)],
               cheatMode)
          /\ lastOp' = Op("giveSeedsToFarmer", TRUE, <<plantKey, amount>>)
  /\ UNCHANGED <<harvestedInventory, wateredFields, waterCooldowns, farmerHarvestSummary,
                 cheatMode, keepMoneyOnRebirth, milestonePopup, plantSelectionModal,
                 offlineReport, lastAutoHarvestRef, lastWaterTimeRef, waterChainRef,
                 pendingHarvest, now, storage, phase>>
  /\ inputs' = inputs + 1
  /\ UNCHANGED pureVars

\* a farmer who always has a free slot
FarmerSlotsLeftAlways(farmer) == 1

\* slotsLeft = config.slots - slotsUsed
FarmerSlotsLeft(farmer) == getFarmerConfig(farmer.level).slots - Len(farmer.slots)

\* the farmer's interval callback (every 2 s while the effect is active):
\* the first seed of the farmer's inventory starts a job in a free slot
FarmerAutoReplant ==
  /\ phase = "running"
  /\ gameState.farmer.unlocked /\ gameState.farmer.autoReplant
  /\ LET farmer == gameState.farmer
         config == getFarmerConfig(farmer.level)
         hasSeeds(i) == farmer.inventory[i].amount > 0
     IN /\ ~(FarmerSlotsLeft(farmer) <= 0)
        /\ \E i \in 1..Len(farmer.inventory) :
             /\ hasSeeds(i)
             /\ \A j \in 1..(i - 1) : ~hasSeeds(j)
             /\ farmer.inventory[i].plantKey \in getAllPlants(gameState.rebirths)
             /\ LET plantKey == farmer.inventory[i].plantKey
                    newInv == [farmer.inventory EXCEPT ![i].amount = @ - 1]
                    duration == MulDiv10(cappedGrowTime(plantKey), config.timeMult10)
                IN gameState' =
                     [gameState EXCEPT
                        !.farmer.inventory = SelectSeq(newInv, LAMBDA sl : sl.amount > 0),
                        !.farmer.slots = Append(@, [plantKey |-> plantKey, startTime |-> now,
                                                    duration |-> duration])]
  /\ lastOp' = Op("farmerAutoReplant", TRUE, 0)
  /\ UNCHANGED <<harvestedInventory, wateredFields, waterCooldowns, farmerHarvestSummary,
                 cheatMode, keepMoneyOnRebirth, milestonePopup, plantSelectionModal,
                 offlineReport, lastAutoHarvestRef, lastWaterTimeRef, waterChainRef,
                 pendingHarvest, now, storage, phase>>
  /\ UNCHANGED inputs
  /\ UNCHANGED pureVars

(***************************************************************************)
(* Offline reconciliation (loadGame)                                       *)
(***************************************************************************)
\* the elapsed time taken in full
TimePassedUncapped(t, lastUpdate) == t - lastUpdate

\* timePassed = Math.min(now - loaded.lastUpdate, MAX_OFFLINE_HOURS * 3600000)
TimePassed(t, lastUpdate) == Min(t - lastUpdate, MAX_OFFLINE_HOURS * 3600000)

\* offlineMs = timePassed * Math.min(offlineEff, 1); the saves of the model are
\* a multiple of 10 ms old, which keeps the product an integer
OfflineMs(timePassed, offlineEfficiency) ==
  MulDiv10(timePassed, Min(BASE_OFFLINE_EFFICIENCY10 + offlineEfficiency, 10))

\* the body of loaded.fields.forEach
OfflineField(field, offlineMs) ==
  IF field.planted # "none" /\ field.plantTime > 0
  THEN LET t == Max(0, field.plantTime - offlineMs)
       IN IF t <= 0 THEN [field EXCEPT !.plantTime = 0, !.stage = 3]
          ELSE [field EXCEPT !.plantTime = t]
  ELSE field

\* grownCount
GrownCount(fields, offlineMs) ==
  Cardinality({i \in DOMAIN fields :
                 /\ fields[i].planted # "none" /\ fields[i].plantTime > 0
                 /\ Max(0, fields[i].plantTime - offlineMs) <= 0})

\* loadGame(), run once on mount
LoadGame ==
  /\ phase = "mount"
  /\ phase' = "running"
  /\ IF storage = <<>>
     THEN /\ UNCHANGED <<gameState, harvestedInventory, offlineReport>>
          /\ lastOp' = Op("loadGame", FALSE, 0)
     ELSE LET loaded == storage[1].state
              timePassed == TimePassed(now, storage[1].lastUpdate)
              offlineMs == OfflineMs(timePassed, loaded.rebirthShop.offlineEfficiency)
          IN /\ gameState' = [loaded EXCEPT
                                !.fields = [i \in DOMAIN loaded.fields |->
                                              OfflineField(loaded.fields[i], offlineMs)]]
             /\ harvestedInventory' = storage[1].harvested
             /\ offlineReport' = IF timePassed > 60000
                                 THEN [shown |-> TRUE, timePassed |-> timePassed,
                                       grown |-> GrownCount(loaded.fields, offlineMs)]
                                 ELSE offlineReport
             /\ lastOp' = Op("loadGame", TRUE, 0)
  /\ UNCHANGED <<wateredFields, waterCooldowns, farmerHarvestSummary, cheatMode,
                 keepMoneyOnRebirth, milestonePopup, plantSelectionModal, lastAutoHarvestRef,
                 lastWaterTimeRef, waterChainRef, pendingHarvest, now, storage>>
  /\ UNCHANGED inputs
  /\ UNCHANGED pureVars

\* closing the plant dialog without planting
ClosePlantDialog ==
  /\ phase = "running"
  /\ inputs < MaxInputs
  /\ plantSelectionModal # 0
  /\ plantSelectionModal' = 0
  /\ lastOp' = Op("closePlantDialog", TRUE, 0)
  /\ UNCHANGED <<gameState, harvestedInventory, wateredFields, waterCooldowns,
                 farmerHarvestSummary, cheatMode, keepMoneyOnRebirth, milestonePopup,
                 offlineReport, lastAutoHarvestRef, lastWaterTimeRef, waterChainRef,
                 pendingHarvest, now, storage, phase>>
  /\ inputs' = inputs + 1
  /\ UNCHANGED pureVars

(***************************************************************************)
(* Saves found in localStorage at mount.  Each is a state the game can be  *)
(* in when it is saved.                                                    *)
(***************************************************************************)
Planted(plantKey, plantTime, stage) ==
  [unlocked |-> TRUE, planted |-> plantKey, plantTime |-> plantTime, stage |-> stage]

\* 22 discovered pairs, a fifth of the index: three plants in full and the
\* plain carrot
Discovered22 ==
  [k \in PlantKeys |-> IF k \in {"potato", "tomato", "corn"} THEN VariantSet
                       ELSE IF k = "carrot" THEN {"normal"} ELSE {}]

SeedsOf(carrot, pumpkin) ==
  [k \in PlantKeys |-> IF k = "carrot" THEN carrot ELSE IF k = "pumpkin" THEN pumpkin ELSE 0]

BaseState == createDefaultState(defaultRebirthShop, 0, 0)

Save(state, age, harvested) ==
  [state |-> state, lastUpdate |-> Now0 - age, harvested |-> harvested]

\* a first run, no rebirth yet: <<money, fields, age of the save in ms>>
EarlyCases ==
  { <<10, <<EmptyField>>, 0>>,
    <<49999, <<EmptyField>>, 0>>,
    <<50000, <<EmptyField>>, 0>>,
    <<10, <<Planted("carrot", 1000, 3)>>, 0>>,
    <<10, <<Planted("carrot", 1000, 3)>>, 30000>>,
    <<10, <<Planted("carrot", 41000, 1)>>, 30000>>,
    <<10, <<Planted("carrot", 21400, 2)>>, 0>>,
    <<10, <<Planted("carrot", 41000, 1)>>, 360000000>>,
    <<10, <<Planted("carrot", 0, 3), EmptyField>>, 0>>,
    <<10, <<Planted("carrot", 21000, 2), Planted("pumpkin", 720000, 1)>>, 30000>>,
    <<10, <<Planted("carrot", 21000, 2), Planted("pumpkin", 720000, 1)>>, 360000000>> }

EarlySaves ==
  { Save([BaseState EXCEPT !.money = c[1], !.fields = c[2], !.inventory = SeedsOf(1, 1)],
         c[3], <<>>) : c \in EarlyCases }

\* before the 15th rebirth, with a farmer at work and upgrades bought
MidState ==
  [BaseState EXCEPT
     !.inventory = SeedsOf(1, 0),
     !.rebirths = 14, !.rebirthTokens = 3,
     !.discoveredVariants = Discovered22,
     !.milestoneTokensClaimed = TRUE,
     !.startMoneyUsed = TRUE,
     !.autoHarvest = TRUE,
     !.waterUpgrades = [defaultWaterUpgrades EXCEPT !.strength = 1],
     !.rebirthShop = [defaultRebirthShop EXCEPT !.indexBonus = 4, !.offlineEfficiency = 1],
     !.farmer = [unlocked |-> TRUE, level |-> 2,
                 slots |-> << [plantKey |-> "carrot", startTime |-> Now0 - 200000,
                               duration |-> 168000],
                              [plantKey |-> "carrot", startTime |-> Now0 - 1000,
                               duration |-> 168000] >>,
                 inventory |-> << [plantKey |-> "carrot", amount |-> 2] >>,
                 autoReplant |-> FALSE],
     !.seenMilestones = <<"autoHarvest", "growthBonus", "goldChance", "bonusTokens">>]

MidCases ==
  { <<3339201, <<Planted("carrot", 0, 3), EmptyField>> >>,
    <<3339202, <<Planted("carrot", 0, 3), EmptyField>> >>,
    <<3339202, <<Planted("carrot", 41000, 1)>> >>,
    <<8348002, <<Planted("carrot", 41000, 1)>> >> }

MidSaves ==
  { Save([MidState EXCEPT !.money = c[1], !.fields = c[2]], 30000,
         (<<"carrot", <<"gold">> >> :> 1) @@ (<<"carrot", <<"gold", "+", "shiny">> >> :> 2)) :
    c \in MidCases }

\* a late game: auto-sell with an event about to end, and the bulk rebirths
LateState ==
  [BaseState EXCEPT !.money = 10, !.rebirths = 25, !.milestoneTokensClaimed = TRUE,
                    !.startMoneyUsed = TRUE, !.discoveredVariants = Discovered22,
                    !.rebirthShop = [defaultRebirthShop EXCEPT !.indexBonus = 4]]

LateSaves ==
  { Save([LateState EXCEPT
            !.fields = <<Planted("carrot", 0, 3), Planted("carrot", 1000, 3)>>,
            !.autoHarvest = TRUE, !.autoSell = mode,
            !.eventStartTime = Now0 - 299000, !.eventType = "gold"], 0, <<>>) :
    mode \in {"all", "normal", "gold+"} }
  \cup { Save([LateState EXCEPT !.money = m], 0, <<>>) : m \in {226597034, 226597035} }
  \cup { Save([LateState EXCEPT !.rebirths = 31], 0, <<>>) }

\* seeds in hand and a farmer whose inventory holds two or three seed types;
\* in the last save autoReplant is on and the seeds outnumber the slots
FarmerSaves ==
  { Save([MidState EXCEPT
            !.money = 3339201, !.fields = <<EmptyField>>,
            !.inventory = SeedsOf(2, 1),
            !.farmer = [@ EXCEPT !.slots = <<>>, !.inventory = inv]], 0, <<>>) :
    inv \in { << [plantKey |-> "tomato", amount |-> 1], [plantKey |-> "corn", amount |-> 1] >>,
              << [plantKey |-> "tomato", amount |-> 1], [plantKey |-> "corn", amount |-> 1],
                 [plantKey |-> "carrot", amount |-> 1] >> } }
  \cup { Save([MidState EXCEPT
                  !.money = 3339201, !.fields = <<EmptyField>>,
                  !.inventory = SeedsOf(2, 1),
                  !.farmer = [@ EXCEPT
                     !.slots = <<>>, !.autoReplant = TRUE,
                     !.inventory = << [plantKey |-> "pumpkin", amount |-> 1],
                                      [plantKey |-> "corn", amount |-> 1],
                                      [plantKey |-> "carrot", amount |-> 1] >>]], 0, <<>>) }

SavePool == EarlySaves \cup MidSaves \cup LateSaves

(***************************************************************************)
(* The game                                                                *)
(***************************************************************************)
PureIdle ==
  /\ rollDraws = <<>>
  /\ rollResult = <<>>
  /\ valIn = <<>>
  /\ valOut = <<>>

\* the state of FarmGame when it is mounted at time t
MountStateAt(t) ==
  /\ gameState = BaseState
  /\ harvestedInventory = <<>>
  /\ wateredFields = [i \in FieldIdx |-> 0]
  /\ waterCooldowns = [i \in FieldIdx |-> 0]
  /\ farmerHarvestSummary = NoSummary
  /\ cheatMode = FALSE
  /\ keepMoneyOnRebirth = FALSE
  /\ milestonePopup = "none"
  /\ plantSelectionModal = 0
  /\ offlineReport = NoReport
  /\ lastAutoHarvestRef = 0
  /\ lastWaterTimeRef = 0
  /\ waterChainRef = 0
  /\ pendingHarvest = <<>>
  /\ now = t
  /\ phase = "mount"
  /\ lastOp = NoOp
  /\ inputs = 0

MountState == MountStateAt(Now0)

Init ==
  /\ MountState
  /\ storage \in {<<>>} \cup {<<s>> : s \in SavePool}
  /\ PureIdle

Next ==
  \/ LoadGame
  \/ Tick
  \/ \E i \in FieldIdx : WaterField(i)
  \/ \E i \in FieldIdx : Harvest(i)
  \/ AutoHarvest
  \/ HarvestTimeout
  \/ \E x \in DOMAIN harvestedInventory :
       \E amount \in {1, harvestedInventory[x]} : SellHarvested(x[1], x[2], amount)
  \/ \E filter \in {"all", "normal", "rare"} : SellAll(filter)
  \/ \E i \in FieldIdx : SelectField(i)
  \/ \E k \in {"carrot", "pumpkin", "rebirth_rose"} : PlantSeed(k)
  \/ ClosePlantDialog
  \/ \E i \in FieldIdx : BuyField(i)
  \/ BuyRebirthField
  \/ \E n \in 1..MaxMulti : DoRebirth(n)
  \/ \E i \in 1..2 : CollectFarmerSlot(i)
  \/ \E c \in BOOLEAN : SetCheatMode(c)
  \/ \E b \in BOOLEAN : SetKeepMoneyOnRebirth(b)

Spec == Init /\ [][Next]_vars

(***************************************************************************)
(* rollStackedVariants on its own: the draws of the three rolls are chosen *)
(* at the start and the roll is applied to them.                           *)
(***************************************************************************)
InitRoll ==
  /\ MountState
  /\ storage = <<>>
  /\ rollDraws \in DrawSet \X DrawSet \X DrawSet
  /\ rollResult = <<>>
  /\ valIn = <<>>
  /\ valOut = <<>>

RollStep ==
  /\ rollResult = <<>>
  /\ rollResult' = rollStackedVariants(rollDraws[1], rollDraws[2], rollDraws[3])
  /\ UNCHANGED <<rollDraws, valIn, valOut>>
  /\ UNCHANGED gameVars

NextRoll == RollStep

SpecRoll == InitRoll /\ [][NextRoll]_vars

(***************************************************************************)
(* The shops, the rebirth and the farmer's seeds: the handlers that spend  *)
(* money, tokens and seeds, from a fresh game or a save.                   *)
(***************************************************************************)
ShopPool ==
  { Save([BaseState EXCEPT !.money = m, !.inventory = SeedsOf(1, 0)], 0, <<>>) :
      m \in {10, 50000} }
  \cup { Save([MidState EXCEPT !.money = 3339201, !.fields = <<EmptyField>>], 0, <<>>) }
  \cup { Save([LateState EXCEPT
                  !.money = 226597035, !.rebirthTokens = 27,
                  !.waterUpgrades = [defaultWaterUpgrades EXCEPT !.duration = 5],
                  !.rebirthShop = [@ EXCEPT !.offlineEfficiency = 3]], 0, <<>>) }
  \cup { Save([LateState EXCEPT
                  !.rebirths = 16, !.money = 1000, !.startMoneyUsed = FALSE,
                  !.inventory = SeedsOf(0, 0)], 0, <<>>) }
  \cup FarmerSaves

InitShop ==
  /\ MountState
  /\ storage \in {<<>>} \cup {<<s>> : s \in ShopPool}
  /\ PureIdle

NextShop ==
  \/ LoadGame
  \/ Tick
  \/ \E k \in {"carrot", "pumpkin", "rebirth_rose"} : \E amount \in {1, 5} : BuySeed(k, amount)
  \/ \E i \in FieldIdx : BuyField(i)
  \/ BuyRebirthField
  \/ \E key \in {"duration", "strength"} : BuyWaterUpgrade(key)
  \/ \E key \in {"offlineEfficiency", "fieldStart", "indexBonus"} : BuyRebirthUpgrade(key)
  \/ BuyFarmer
  \/ UpgradeFarmer
  \/ \E k \in {"carrot", "pumpkin"} : \E amount \in {-1, 0, 1, 2} : GiveSeedsToFarmer(k, amount)
  \/ FarmerAutoReplant
  \/ \E i \in FieldIdx : SelectField(i)
  \/ \E k \in {"carrot", "pumpkin"} : PlantSeed(k)
  \/ ClosePlantDialog
  \/ \E n \in 1..MaxMulti : DoRebirth(n)

SpecShop == InitShop /\ [][NextShop]_vars

(***************************************************************************)
(* The farmer's harvest: collected jobs, their summary and the ways the    *)
(* collected units leave harvestedInventory.                               *)
(***************************************************************************)
\* a farmer of level 4 with four jobs, the first and the third complete
FarmerJobSaves ==
  { Save([MidState EXCEPT
            !.fields = <<EmptyField>>,
            !.farmer = [@ EXCEPT
               !.level = 4,
               !.slots = << [plantKey |-> "carrot", startTime |-> Now0 - 144000,
                             duration |-> 144000],
                            [plantKey |-> "tomato", startTime |-> Now0 - 1000,
                             duration |-> 576000],
                            [plantKey |-> "corn", startTime |-> Now0 - 1200000,
                             duration |-> 1152000],
                            [plantKey |-> "potato", startTime |-> Now0 - 287000,
                             duration |-> 288000] >>]], 0, <<>>) }

InitFarmer ==
  /\ MountState
  /\ storage \in {<<>>} \cup {<<s>> : s \in SavePool \cup FarmerJobSaves}
  /\ PureIdle

NextFarmer ==
  \/ LoadGame
  \/ Tick
  \/ \E i \in 1..2 : CollectFarmerSlot(i)
  \/ CollectAllFarmerSlots
  \/ SellFarmerHarvest
  \/ \E filter \in {"all", "normal", "rare"} : SellAll(filter)
  \/ \E n \in 1..MaxMulti : DoRebirth(n)

SpecFarmer == InitFarmer /\ [][NextFarmer]_vars

(***************************************************************************)
(* The events: saves with an event that is over or about to be, and the    *)
(* game clock running on for MaxEventTicks seconds; the page is mounted    *)
(* that much earlier.                                                      *)
(***************************************************************************)
EventMount == Now0 + (MaxTicks - MaxEventTicks) * 1000

\* <<eventStartTime, eventType>> of the save
EventCases ==
  { <<0, "none">>,
    <<EventMount - EVENT_DURATION, "gold">>,
    <<EventMount - EVENT_DURATION + 1000, "gold">>,
    <<EventMount - EVENT_DURATION - EVENT_INTERVAL + 2000, "gold">>,
    <<EventMount - 1000, "gold">> }

\* saves written at the moment the page is mounted, one whose lastUpdate lies
\* ahead of the clock (the clock was set back since the save was written), and
\* one from before the milestone tokens were handed out, with the money for a
\* rebirth
EventSaves ==
  { Save([LateState EXCEPT
            !.fields = <<Planted("carrot", 0, 3), Planted("carrot", 1000, 3)>>,
            !.autoHarvest = TRUE, !.autoSell = mode,
            !.eventStartTime = c[1], !.eventType = c[2]], Now0 - EventMount, <<>>) :
      mode \in {"off", "all"}, c \in EventCases }
  \cup { Save([LateState EXCEPT
                  !.fields = <<Planted("carrot", 0, 3), Planted("carrot", 1000, 3)>>,
                  !.autoHarvest = TRUE], 0, <<>>) }
  \cup { Save([LateState EXCEPT !.money = 226597035, !.milestoneTokensClaimed = FALSE],
              Now0 - EventMount, <<>>) }

InitEvent ==
  /\ MountStateAt(EventMount)
  /\ storage \in {<<>>} \cup {<<s>> : s \in EventSaves}
  /\ PureIdle

NextEvent ==
  \/ LoadGame
  \/ Tick
  \/ \E i \in FieldIdx : Harvest(i)
  \/ AutoHarvest
  \/ HarvestTimeout
  \/ DoRebirth(1)

SpecEvent == InitEvent /\ [][NextEvent]_vars

(***************************************************************************)
(* Growth: saves with growing fields, written at the moment the page is    *)
(* mounted, an event running all the while, and the game clock ticking     *)
(* MaxGrowTicks times; the player waters.  The interval of the main game   *)
(* tick keeps firing, and the mount effect runs loadGame.                  *)
(***************************************************************************)
GrowMount == Now0 + (MaxTicks - MaxGrowTicks) * 1000

GrowSaves ==
  { Save([st EXCEPT !.fields = fs,
                    !.waterUpgrades = [defaultWaterUpgrades EXCEPT
                                         !.strength = 1, !.range = st.rebirths \div 25],
                    !.eventStartTime = GrowMount - 1000, !.eventType = "gold"],
         Now0 - GrowMount, <<>>) :
      st \in {BaseState, LateState},
      fs \in { <<Planted("carrot", 60000, 1), Planted("carrot", 3000, 3)>>,
               <<Planted("pumpkin", 720000, 1), Planted("carrot", 41000, 1)>>,
               <<Planted("carrot", 1000, 3), EmptyField>> } }

InitGrow ==
  /\ MountStateAt(GrowMount)
  /\ storage \in {<<s>> : s \in GrowSaves}
  /\ PureIdle

NextGrow ==
  \/ LoadGame
  \/ Tick
  \/ \E i \in 1..MaxFieldIdx : WaterField(i)

SpecGrow == InitGrow /\ [][NextGrow]_vars /\ WF_vars(LoadGame) /\ WF_vars(Tick)

(***************************************************************************)
(* The field handlers on their own: plantSeed and buyField are taken as    *)
(* the handlers they are, with any field of the farm as their target, next *)
(* to the way through the plant dialog.                                    *)
(***************************************************************************)
\* plantSeed(plantKey, fieldIndex) invoked twice before the component renders
\* again: both calls test the inventory of the same snapshot, and their two
\* updaters run one after the other on the state at hand
PlantSeedTwice(plantKey, fieldIndex) ==
  /\ phase = "running"
  /\ inputs < MaxInputs
  /\ fieldIndex \in DOMAIN gameState.fields
  /\ IF gameState.inventory[plantKey] > 0 /\ plantKey \in getAllPlants(gameState.rebirths)
     THEN LET once == [gameState EXCEPT
                         !.fields[fieldIndex] =
                            [@ EXCEPT !.planted = plantKey,
                                      !.plantTime = cappedGrowTime(plantKey),
                                      !.stage = 1],
                         !.inventory[plantKey] = @ - 1]
              twice == [once EXCEPT
                          !.fields[fieldIndex] =
                             [@ EXCEPT !.planted = plantKey,
                                       !.plantTime = cappedGrowTime(plantKey),
                                       !.stage = 1],
                          !.inventory[plantKey] = @ - 1]
          IN /\ gameState' = CheatEffect(twice, cheatMode)
             /\ plantSelectionModal' = 0
             /\ lastOp' = Op("plantSeedTwice", TRUE, <<plantKey, fieldIndex>>)
     ELSE /\ UNCHANGED <<gameState, plantSelectionModal>>
          /\ lastOp' = Op("plantSeedTwice", FALSE, <<plantKey, fieldIndex>>)
  /\ UNCHANGED <<harvestedInventory, wateredFields, waterCooldowns, farmerHarvestSummary,
                 cheatMode, keepMoneyOnRebirth, milestonePopup, offlineReport,
                 lastAutoHarvestRef, lastWaterTimeRef, waterChainRef, pendingHarvest,
                 now, storage, phase>>
  /\ inputs' = inputs + 1
  /\ UNCHANGED pureVars

NextPlant ==
  \/ LoadGame
  \/ Tick
  \/ \E i \in FieldIdx : SelectField(i)
  \/ \E k \in {"carrot", "pumpkin"} : PlantSeed(k)
  \/ ClosePlantDialog
  \/ \E k \in {"carrot", "pumpkin"} : \E i \in FieldIdx : PlantSeedAt(k, i)
  \/ \E i \in 1..MaxFieldIdx : BuyFieldAt(i)
  \/ \E k \in {"carrot", "pumpkin"} : \E i \in FieldIdx : PlantSeedTwice(k, i)

SpecPlant == Init /\ [][NextPlant]_vars

(***************************************************************************)
(* The valuation functions on their own.                                   *)
(***************************************************************************)
RareVariants == VariantSet \ {"normal"}

\* the lists rollStackedVariants can return
VariantLists ==
  {<<"normal">>} \cup
  {vs \in UNION {[1..n -> RareVariants] : n \in 1..3} :
     \A i, j \in DOMAIN vs : i # j => vs[i] # vs[j]}

\* the base values of the catalog, and the 100 of the documented example
BaseValues == {plantDef[k].value : k \in PlantKeys} \cup {100}

InitValue ==
  /\ MountState
  /\ storage = <<>>
  /\ rollDraws = <<>>
  /\ rollResult = <<>>
  /\ valIn \in [baseValue : BaseValues, variants : VariantLists, rebirths : 0..MaxValRebirths]
  /\ valOut = <<>>

ValueStep ==
  /\ valOut = <<>>
  /\ valOut' = [stacked |-> calculateStackedValue(valIn.baseValue, valIn.variants, valIn.rebirths),
                single |-> calculateValue(valIn.baseValue, valIn.variants[1], valIn.rebirths)]
  /\ UNCHANGED <<rollDraws, rollResult, valIn>>
  /\ UNCHANGED gameVars

NextValue == ValueStep

SpecValue == InitValue /\ [][NextValue]_vars

(***************************************************************************)
(* Properties of the game                                                  *)
(***************************************************************************)
\* C1: no step of the running game (a harvest, the collection of a farmer
\* job and a rebirth among them) removes a pair from discoveredVariants: the
\* set of every plant after the step contains the set before it.
C1_DiscoveredNeverLost ==
  [][phase = "running" =>
       \A k \in PlantKeys :
         gameState.discoveredVariants[k] \subseteq gameState'.discoveredVariants[k]]_vars

\* a rebirth has just gone through in a run that collected a farmer job and
\* found new carrot variants; the pairs of the save are all still there
C1_Witness ==
  /\ lastOp.op = "doRebirth" /\ lastOp.ok
  /\ farmerHarvestSummary.present
  /\ gameState.discoveredVariants["carrot"] \ {"normal"} # {}
  /\ "normal" \in gameState.discoveredVariants["carrot"]
  /\ gameState.discoveredVariants["potato"] = VariantSet

\* C3: a successful doRebirth(1) with neither admin switch on leaves money at
\* the start money of the new rebirth count, raises rebirths by exactly one,
\* and leaves discoveredVariants, the farmer's level and the farmer's seed
\* inventory as they were.
C3_RebirthPartition ==
  [][(/\ lastOp'.op = "doRebirth" /\ lastOp'.ok /\ lastOp'.arg = 1
      /\ ~cheatMode /\ ~keepMoneyOnRebirth)
     => /\ gameState'.money = (IF gameState.rebirths + 1 >= 15 THEN 20 ELSE 10)
        /\ gameState'.rebirths = gameState.rebirths + 1
        /\ gameState'.discoveredVariants = gameState.discoveredVariants
        /\ gameState'.farmer.level = gameState.farmer.level
        /\ gameState'.farmer.inventory = gameState.farmer.inventory]_vars

\* the 15th rebirth of a player whose farmer is at level 2 and holds seeds:
\* the balance of over three million has become the doubled start money
C3_Witness ==
  /\ lastOp.op = "doRebirth" /\ lastOp.ok /\ lastOp.arg = 1
  /\ ~cheatMode /\ ~keepMoneyOnRebirth
  /\ gameState.rebirths = 15
  /\ gameState.money = 20
  /\ gameState.farmer.level = 2
  /\ gameState.farmer.inventory # <<>>
  /\ discoveredCount(gameState) >= 22

\* C4 as stated: whenever money is below floor(getRebirthCost(rebirths) x
\* costMult), doRebirth is rejected and changes nothing.
C4_AsStated ==
  [][(lastOp'.op = "doRebirth" /\ gameState.money < MulDiv10(getRebirthCost(gameState.rebirths), FindOption(lastOp'.arg).costMult10))
     => (~lastOp'.ok /\ UNCHANGED <<gameState, harvestedInventory, milestonePopup>>)]_vars

\* C4: with cheatMode off, doRebirth(N) is rejected and changes nothing whenever
\* money is below floor(getRebirthCost(rebirths) x costMult of the option), and
\* goes through whenever money reaches that amount: the cost is the one at the
\* current rebirth count.
C4_RejectedBelowCost ==
  [][(lastOp'.op = "doRebirth" /\ ~cheatMode)
     => IF gameState.money < MulDiv10(getRebirthCost(gameState.rebirths), FindOption(lastOp'.arg).costMult10)
        THEN ~lastOp'.ok /\ UNCHANGED <<gameState, harvestedInventory, milestonePopup>>
        ELSE lastOp'.ok /\ gameState'.rebirths = gameState.rebirths + lastOp'.arg]_vars

\* a double rebirth at 25 rebirths was rejected with one coin missing
C4_Witness ==
  /\ lastOp.op = "doRebirth" /\ ~lastOp.ok /\ lastOp.arg = 2
  /\ ~cheatMode
  /\ gameState.rebirths = 25
  /\ gameState.money = MulDiv10(getRebirthCost(25), 25) - 1

C7_AsStated ==
  \A i \in DOMAIN gameState.fields :
    LET f == gameState.fields[i]
    IN /\ (f.planted = "none") <=> (f.plantTime = 0)
       /\ (f.plantTime = 0) <=> (f.stage = 0)

\* C7: for every field planted is null exactly if stage is 0, and an empty
\* field has plantTime 0; a planted field with plantTime 0 is ripe, at stage 3.
C7_EmptyField ==
  \A i \in DOMAIN gameState.fields :
    LET f == gameState.fields[i]
    IN /\ (f.planted = "none") <=> (f.stage = 0)
       /\ (f.planted = "none") => (f.plantTime = 0)
       /\ (f.planted # "none" /\ f.plantTime = 0) => (f.stage = 3)

\* a field has been harvested and is empty again, next to a crop that a tick
\* has just brought to ripeness
C7_Witness ==
  /\ lastOp.op = "tick"
  /\ storage # <<>>
  /\ DOMAIN storage[1].state.fields = DOMAIN gameState.fields
  /\ \E i, j \in DOMAIN gameState.fields :
       /\ storage[1].state.fields[i].planted # "none"
       /\ gameState.fields[i] = EmptyField
       /\ storage[1].state.fields[j].plantTime > 0
       /\ gameState.fields[j].planted # "none"
       /\ gameState.fields[j].plantTime = 0
       /\ gameState.fields[j].stage = 3

\* C8: loading a save takes from each growing field at most
\* 8 x 3600000 x min(1, 0.7 + 0.1 x offlineEfficiency) ms, and the elapsed time
\* it reports having applied is at most 8 hours, whatever the age of the save.
C8_OfflineCap ==
  (lastOp.op = "loadGame" /\ lastOp.ok) =>
    LET saved == storage[1].state
        cap == 8 * 360000 * Min(10, 7 + saved.rebirthShop.offlineEfficiency)
    IN /\ \A i \in DOMAIN saved.fields :
            (saved.fields[i].planted # "none" /\ saved.fields[i].plantTime > 0)
            => /\ saved.fields[i].plantTime - gameState.fields[i].plantTime <= cap
               /\ gameState.fields[i].plantTime >= 0
       /\ offlineReport.shown => offlineReport.timePassed <= 8 * 3600000

\* a save of 100 hours ago with growing fields has been loaded
C8_Witness ==
  /\ lastOp.op = "loadGame" /\ lastOp.ok
  /\ now - storage[1].lastUpdate = 100 * 3600000
  /\ Len(storage[1].state.fields) = 2
  /\ storage[1].state.fields[2] = Planted("pumpkin", 720000, 1)
  /\ gameState.fields[2].plantTime = 0
  /\ offlineReport.shown
  /\ offlineReport.timePassed = 8 * 3600000

\* the index bonus x 100 of the valuation: 1 + tier x 0.01 x floor(10 x fraction)
C9_Bonus100(gs) ==
  100 + gs.rebirthShop.indexBonus * ((10 * discoveredCount(gs)) \div totalVariantsCount)

\* floor(baseValue x sum of multipliers x (1 + 0.1 x rebirths) x indexCompletionBonus)
C9_OneFloor(gs, plantKey, vs) ==
  (plantDef[plantKey].value * SumMultiplier10(vs) * (10 + gs.rebirths) * C9_Bonus100(gs))
    \div 10000

\* floor(floor(baseValue x sum of multipliers x (1 + 0.1 x rebirths)) x indexCompletionBonus)
C9_TwoFloors(gs, plantKey, vs) ==
  (((plantDef[plantKey].value * SumMultiplier10(vs) * (10 + gs.rebirths)) \div 100)
     * C9_Bonus100(gs)) \div 100

\* the pairs of the harvested inventory a step sells from
C9_Sold == {x \in DOMAIN harvestedInventory :
              HIGet(harvestedInventory', x[1], x[2]) < harvestedInventory[x]}

\* the step is an auto-harvest that sells its harvest at once
C9_AutoSells ==
  /\ lastOp'.op = "autoHarvest"
  /\ Len(pendingHarvest') = Len(pendingHarvest) + 1
  /\ pendingHarvest'[Len(pendingHarvest')].autoSold

\* the step sells from one pair of the harvested inventory
C9_SellsOnePair ==
  /\ lastOp'.op \in {"sellHarvested", "sellAll"}
  /\ lastOp'.ok
  /\ Cardinality(C9_Sold) = 1

C5_AllSucceed ==
  /\ rollDraws # <<>>
  /\ \A n \in 1..3 : \A i \in DrawIdx : rollDraws[n][i]

\* C5 as stated: when every draw succeeds, rollStackedVariants returns exactly
\* 3 distinct variants, none of them normal.
C5_AsStated ==
  (rollResult # <<>> /\ C5_AllSucceed)
  => /\ Len(rollResult) = 3
     /\ \A i, j \in 1..3 : i # j => rollResult[i] # rollResult[j]
     /\ \A i \in 1..3 : rollResult[i] # "normal"

\* C5: when every draw succeeds, rollStackedVariants returns the rarest variant
\* alone: the second roll returns it again and ends the roll.  (That a result
\* never has more than 3 variants is part of C6.)
C5_AllSucceedOneVariant ==
  (rollResult # <<>> /\ C5_AllSucceed) => rollResult = <<"legendary">>

\* the roll has been made with every draw succeeding
C5_Witness ==
  /\ C5_AllSucceed
  /\ rollResult = <<"legendary">>

\* the variant a roll returns: the rarest one whose draw succeeds
C6_Rolled(d) ==
  IF \E i \in DrawIdx : d[i]
  THEN variantKeys[CHOOSE i \in DrawIdx : d[i] /\ \A j \in DrawIdx : d[j] => j <= i]
  ELSE "normal"

\* C6: whatever the draws, the result of rollStackedVariants is <<"normal">> or
\* holds 1 to 3 pairwise distinct variants none of which is normal; it holds a
\* third variant only if the second roll added one, and it is <<"normal">> when
\* every draw fails.
C6_ResultShape ==
  rollResult # <<>> =>
    /\ \/ rollResult = <<"normal">>
       \/ /\ Len(rollResult) \in 1..3
          /\ \A i \in 1..Len(rollResult) : rollResult[i] \in VariantSet \ {"normal"}
          /\ \A i, j \in 1..Len(rollResult) : i # j => rollResult[i] # rollResult[j]
    /\ Len(rollResult) >= 2 =>
         /\ C6_Rolled(rollDraws[2]) # "normal"
         /\ C6_Rolled(rollDraws[2]) # C6_Rolled(rollDraws[1])
         /\ rollResult[1] = C6_Rolled(rollDraws[1])
         /\ rollResult[2] = C6_Rolled(rollDraws[2])
    /\ Len(rollResult) = 3 => rollResult[3] = C6_Rolled(rollDraws[3])
    /\ (\A n \in 1..3 : \A i \in DrawIdx : ~rollDraws[n][i]) => rollResult = <<"normal">>

\* a roll that stacked three variants
C6_Witness ==
  /\ rollResult # <<>>
  /\ Len(rollResult) = 3
  /\ rollResult[1] = "gold" /\ rollResult[2] = "legendary" /\ rollResult[3] = "shiny"

C11_AsStated ==
  [][(lastOp'.op = "doRebirth" /\ lastOp'.ok)
     => /\ gameState'.farmer.unlocked = gameState.farmer.unlocked
        /\ gameState'.farmer.level = gameState.farmer.level
        /\ gameState'.farmer.slots = gameState.farmer.slots]_vars

\* C11: a successful rebirth carries the farmer forward with its level, its
\* seed inventory and its autoReplant switch, and discards its running jobs:
\* the slots are empty after it.
C11_FarmerKeptJobsDropped ==
  [][(lastOp'.op = "doRebirth" /\ lastOp'.ok)
     => /\ gameState'.farmer.unlocked = gameState.farmer.unlocked
        /\ gameState'.farmer.level = gameState.farmer.level
        /\ gameState'.farmer.inventory = gameState.farmer.inventory
        /\ gameState'.farmer.autoReplant = gameState.farmer.autoReplant
        /\ gameState'.farmer.slots = <<>>]_vars

\* a rebirth straight after loading a save whose farmer had two jobs running:
\* the farmer is still hired at level 2 with its seeds, the jobs are gone
C11_Witness ==
  /\ lastOp.op = "doRebirth" /\ lastOp.ok
  /\ inputs = 1
  /\ storage # <<>>
  /\ Len(storage[1].state.farmer.slots) = 2
  /\ gameState.farmer.unlocked /\ gameState.farmer.level = 2
  /\ gameState.farmer.inventory = storage[1].state.farmer.inventory
  /\ gameState.farmer.slots = <<>>

\* C12: after every successful rebirth the run starts from scratch: no seed
\* is owned, the harvested inventory is empty, no event is set, and every
\* field of the new list is unlocked and empty (no plant, plantTime 0,
\* stage 0).
C12_RunReset ==
  [][(lastOp'.op = "doRebirth" /\ lastOp'.ok)
     => /\ \A k \in PlantKeys : gameState'.inventory[k] = 0
        /\ DOMAIN harvestedInventory' = {}
        /\ gameState'.eventType = "none" /\ gameState'.eventStartTime = 0
        /\ Len(gameState'.fields) =
             1 + gameState.rebirthShop.fieldStart + gameState.rebirthFieldsBought
        /\ \A i \in DOMAIN gameState'.fields :
             /\ gameState'.fields[i].unlocked
             /\ gameState'.fields[i].planted = "none"
             /\ gameState'.fields[i].plantTime = 0
             /\ gameState'.fields[i].stage = 0]_vars

\* a rebirth straight after loading a save with a seed, a planted field and
\* harvested crops: all of it is gone
C12_Witness ==
  /\ lastOp.op = "doRebirth" /\ lastOp.ok
  /\ inputs = 1
  /\ storage # <<>>
  /\ storage[1].state.inventory["carrot"] > 0
  /\ storage[1].state.fields[1].planted # "none"
  /\ DOMAIN storage[1].harvested # {}
  /\ gameState.inventory["carrot"] = 0
  /\ DOMAIN harvestedInventory = {}
  /\ gameState.fields = <<EmptyField>>

\* C13: a successful doRebirth(N) raises rebirths by exactly N and the token
\* balance by exactly floor(tokenPenalty of option N x the sum of
\* getRebirthTokens(rebirths + i) for i in 0..N-1).
C13_CountAndTokens ==
  [][(lastOp'.op = "doRebirth" /\ lastOp'.ok)
     => LET n == lastOp'.arg
            r == gameState.rebirths
            sum == getRebirthTokens(r)
                   + (IF n >= 2 THEN getRebirthTokens(r + 1) ELSE 0)
                   + (IF n >= 3 THEN getRebirthTokens(r + 2) ELSE 0)
                   + (IF n >= 4 THEN getRebirthTokens(r + 3) ELSE 0)
                   + (IF n >= 5 THEN getRebirthTokens(r + 4) ELSE 0)
            penalty100 == CASE n = 1 -> 100 [] n = 2 -> 95 [] n = 3 -> 92
                            [] n = 4 -> 90 [] OTHER -> 88
        IN /\ n \in 1..5
           /\ gameState'.rebirths = r + n
           /\ gameState'.rebirthTokens =
                gameState.rebirthTokens + (sum * penalty100) \div 100]_vars

\* the double rebirth at 25 rebirths, paid in full: 6 + 6 tokens at 95 %
C13_Witness ==
  /\ lastOp.op = "doRebirth" /\ lastOp.ok /\ lastOp.arg = 2
  /\ ~cheatMode
  /\ inputs = 1
  /\ gameState.rebirths = 27
  /\ gameState.rebirthTokens = 11

C15_HarvestedIdx ==
  IF \E i \in DOMAIN gameState.fields :
       gameState.fields[i].planted # "none" /\ gameState'.fields[i].planted = "none"
  THEN CHOOSE i \in DOMAIN gameState.fields :
         gameState.fields[i].planted # "none" /\ gameState'.fields[i].planted = "none"
  ELSE 0

\* C15: every harvest is settled exactly one way.  A manual harvest leaves
\* money as it is and puts one unit under the key of its variants into the
\* harvested inventory.  An automated harvest credits its value and stores
\* nothing exactly when the autoSell milestone (25 rebirths) is reached and
\* the mode matches the result ("all"; "normal" with only normal; "gold+"
\* with a variant other than normal); otherwise it credits nothing and
\* stores one unit.  The unit is stored by the callback doHarvest queues.
C15_SettledOneWay ==
  [][/\ (lastOp'.op \in {"harvest", "autoHarvest"} /\ C15_HarvestedIdx # 0)
        => LET isAuto == lastOp'.op = "autoHarvest"
               plantKey == gameState.fields[C15_HarvestedIdx].planted
               e == pendingHarvest'[Len(pendingHarvest')]
               vs == SplitKey(e.storeKey)
               rare == \E i \in 1..Len(vs) : vs[i] # "normal"
               matches == \/ gameState.autoSell = "all"
                          \/ gameState.autoSell = "normal" /\ ~rare
                          \/ gameState.autoSell = "gold+" /\ rare
               sells == isAuto /\ gameState.rebirths >= 25 /\ matches
           IN /\ Len(pendingHarvest') = Len(pendingHarvest) + 1
              /\ e.plantKey = plantKey
              /\ e.autoSold = sells
              /\ harvestedInventory' = harvestedInventory
              /\ IF sells
                 THEN gameState'.money = gameState.money
                                         + C9_TwoFloors(gameState, plantKey, vs)
                 ELSE gameState'.money = gameState.money
     /\ lastOp'.op = "harvestTimeout"
        => LET h == pendingHarvest[1]
               before == HIGet(harvestedInventory, h.plantKey, h.storeKey)
               after == HIGet(harvestedInventory', h.plantKey, h.storeKey)
           IN /\ after = before + (IF h.autoSold THEN 0 ELSE 1)
              /\ \A x \in DOMAIN harvestedInventory' \ {<<h.plantKey, h.storeKey>>} :
                   x \in DOMAIN harvestedInventory
                   /\ harvestedInventory'[x] = harvestedInventory[x]
              /\ gameState' = gameState]_vars

\* with autoSell on "gold+", a manual harvest of a gold carrot went to the
\* inventory and the automated harvest of the next gold carrot was sold
C15_Witness ==
  /\ lastOp.op = "autoHarvest"
  /\ inputs = 1
  /\ gameState.autoSell = "gold+" /\ gameState.rebirths = 25
  /\ HIGet(harvestedInventory, "carrot", <<"gold">>) = 1
  /\ pendingHarvest = << [plantKey |-> "carrot", storeKey |-> <<"gold">>, autoSold |-> TRUE] >>
  /\ gameState.money = 10 + 235

(***************************************************************************)
(* Properties of the shops and of the farmer's seeds                       *)
(***************************************************************************)
\* the seed types a farmer inventory holds
C16_Types(inv) == {inv[i].plantKey : i \in 1..Len(inv)}

\* C16: giveSeedsToFarmer with a plant that is not in the farmer's inventory
\* while the inventory holds 3 distinct seed types is rejected and changes
\* nothing; no step leaves the farmer with more than 3 distinct seed types
\* (or with two entries of the same type).
C16_ThreeSeedTypes ==
  [][/\ (/\ lastOp'.op = "giveSeedsToFarmer"
         /\ lastOp'.arg[1] \notin C16_Types(gameState.farmer.inventory)
         /\ Cardinality(C16_Types(gameState.farmer.inventory)) >= 3)
        => (~lastOp'.ok /\ gameState' = gameState)
     /\ Cardinality(C16_Types(gameState'.farmer.inventory)) <= 3
     /\ Cardinality(C16_Types(gameState'.farmer.inventory)) =
          Len(gameState'.farmer.inventory)]_vars

\* the farmer took carrots as its third seed type; pumpkin seeds, of which
\* one is in hand, were then refused
C16_Witness ==
  /\ lastOp = Op("giveSeedsToFarmer", FALSE, <<"pumpkin", 1>>)
  /\ inputs = 2
  /\ gameState.inventory["pumpkin"] = 1
  /\ C16_Types(gameState.farmer.inventory) = {"tomato", "corn", "carrot"}

\* the seeds of a plant the farmer holds
C17_Held(inv, plantKey) ==
  IF plantKey \in C16_Types(inv)
  THEN inv[CHOOSE i \in 1..Len(inv) : inv[i].plantKey = plantKey].amount
  ELSE 0

\* C17: giveSeedsToFarmer asking for more seeds than are owned, or for an
\* amount of 0 or less, is rejected and changes nothing; an accepted request
\* takes exactly the amount from the seed inventory and adds exactly the
\* amount to the farmer's seeds of that plant, leaving the other seeds alone;
\* no step leaves a seed count below 0.
C17_SeedsMoved ==
  [][/\ lastOp'.op = "giveSeedsToFarmer"
        => LET plantKey == lastOp'.arg[1]
               amount == lastOp'.arg[2]
           IN /\ (amount <= 0 \/ gameState.inventory[plantKey] < amount)
                   => (~lastOp'.ok /\ gameState' = gameState)
              /\ ~lastOp'.ok => gameState' = gameState
              /\ lastOp'.ok =>
                   /\ gameState'.inventory[plantKey] = gameState.inventory[plantKey] - amount
                   /\ C17_Held(gameState'.farmer.inventory, plantKey) =
                        C17_Held(gameState.farmer.inventory, plantKey) + amount
                   /\ \A k \in PlantKeys \ {plantKey} :
                        /\ gameState'.inventory[k] = gameState.inventory[k]
                        /\ C17_Held(gameState'.farmer.inventory, k) =
                             C17_Held(gameState.farmer.inventory, k)
     /\ \A k \in PlantKeys : gameState'.inventory[k] >= 0]_vars

\* both carrots went to the farmer; a third carrot, which is not owned, was
\* then refused
C17_Witness ==
  /\ lastOp = Op("giveSeedsToFarmer", FALSE, <<"carrot", 1>>)
  /\ inputs = 2
  /\ gameState.inventory["carrot"] = 0
  /\ C17_Held(gameState.farmer.inventory, "carrot") = 2
  /\ Len(gameState.farmer.inventory) = 3

C19_OccupiedKept ==
  [][(/\ lastOp'.op = "plantSeed"
      /\ lastOp'.arg[2] \in DOMAIN gameState.fields
      /\ gameState.fields[lastOp'.arg[2]].planted # "none")
     => /\ gameState'.fields = gameState.fields
        /\ gameState'.inventory = gameState.inventory]_vars

\* a field the claim calls not ripe: empty, below stage 3 or with time left
C20_NotRipe(field) == field.planted = "none" \/ field.stage < 3 \/ field.plantTime > 0

\* C20: harvest on a field that is not ripe changes nothing; a harvest, by
\* hand or automated, that takes a crop takes it from a ripe field, leaves
\* that field empty (no plant, plantTime 0, stage 0) and queues exactly one
\* result, so that a second harvest of the same field finds it not ripe and
\* adds nothing.
C20_OneHarvestPerCrop ==
  [][/\ lastOp'.op = "harvest"
        => LET field == gameState.fields[lastOp'.arg]
           IN /\ C20_NotRipe(field)
                   => /\ ~lastOp'.ok
                      /\ gameState' = gameState
                      /\ pendingHarvest' = pendingHarvest
                      /\ harvestedInventory' = harvestedInventory
              /\ (~C20_NotRipe(field) /\ field.planted \in getAllPlants(gameState.rebirths))
                   => lastOp'.ok
     /\ (lastOp'.op \in {"harvest", "autoHarvest"} /\ pendingHarvest' # pendingHarvest)
        => LET i == lastOp'.arg
           IN /\ ~C20_NotRipe(gameState.fields[i])
              /\ gameState'.fields[i] =
                   [unlocked |-> gameState.fields[i].unlocked, planted |-> "none",
                    plantTime |-> 0, stage |-> 0]
              /\ C20_NotRipe(gameState'.fields[i])
              /\ \A j \in DOMAIN gameState.fields \ {i} :
                   gameState'.fields[j] = gameState.fields[j]
              /\ Len(pendingHarvest') = Len(pendingHarvest) + 1
              /\ pendingHarvest'[Len(pendingHarvest')].plantKey = gameState.fields[i].planted
     /\ (lastOp'.op \in {"harvest", "autoHarvest"} /\ pendingHarvest' = pendingHarvest)
        => gameState'.fields = gameState.fields]_vars

\* the automated harvest took the ripe carrot of the first field, the second
\* field being empty from the start; the harvest by hand that followed found
\* the first field empty: one result is queued
C20_Witness ==
  /\ lastOp = Op("harvest", FALSE, 1)
  /\ inputs = 1
  /\ gameState.autoHarvest /\ gameState.rebirths = 14
  /\ gameState.fields = <<EmptyField, EmptyField>>
  /\ Len(pendingHarvest) = 1
  /\ pendingHarvest[1].plantKey = "carrot"

(***************************************************************************)
(* Properties of the upgrade levels                                        *)
(***************************************************************************)
\* every level within its cost table
C21_Bounded(gs) ==
  /\ \A key \in DOMAIN waterUpgradeDefs :
       /\ gs.waterUpgrades[key] >= 0
       /\ gs.waterUpgrades[key] <= waterUpgradeDefs[key].maxLevel
       /\ waterUpgradeDefs[key].maxLevel = Len(waterUpgradeDefs[key].costs)
  /\ \A key \in DOMAIN rebirthShopDefs :
       /\ gs.rebirthShop[key] >= 0
       /\ gs.rebirthShop[key] <= rebirthShopDefs[key].maxLevel
       /\ rebirthShopDefs[key].maxLevel = Len(rebirthShopDefs[key].costs)

C22_ResultOutstanding ==
  \E i \in 1..Len(pendingHarvest) : ~pendingHarvest[i].autoSold

\* C22: while the result of a harvest is outstanding (the field is empty,
\* the unit neither in harvestedInventory nor paid out), no tick, no sale and
\* no rebirth takes a step.
C22_HarvestAtomic ==
  [][C22_ResultOutstanding
     => lastOp'.op \notin {"tick", "sellHarvested", "sellAll", "doRebirth"}]_vars

(***************************************************************************)
(* Properties of the load                                                  *)
(***************************************************************************)
\* the fields of the save whose plantTime went from above 0 to 0 in the load
C23_Ripened ==
  {i \in DOMAIN gameState'.fields :
     /\ storage[1].state.fields[i].planted # "none"
     /\ storage[1].state.fields[i].plantTime > 0
     /\ gameState'.fields[i].plantTime = 0}

\* C23: right after a load that found a save, the stage of every planted
\* field is the stage that belongs to its new plantTime (3 at plantTime 0 or
\* from progress 0.66, 2 from progress 0.33, else 1), and the count of the
\* offline report is the number of fields whose plantTime went from above 0
\* to 0.
C23_StagesAfterLoad ==
  [][(lastOp'.op = "loadGame" /\ lastOp'.ok)
     => /\ \A i \in DOMAIN gameState'.fields :
             LET f == gameState'.fields[i]
             IN f.planted # "none"
                  => f.stage = (IF f.plantTime = 0 THEN 3
                                ELSE NewStage(f.plantTime, cappedGrowTime(f.planted)))
        /\ offlineReport'.shown => offlineReport'.grown = Cardinality(C23_Ripened)]_vars

(***************************************************************************)
(* Properties of planting                                                  *)
(***************************************************************************)
\* C24: plantSeed for a plant with a seed in the inventory takes exactly one
\* seed of that plant, sets the field to that plant with
\* plantTime = min(growTime, 720000) and stage 1, and leaves every other
\* field, the other seed counts, the money and the rest of the state as they
\* were; without a seed of the plant it changes nothing.
C24_PlantOneSeed ==
  [][lastOp'.op = "plantSeed"
     => LET plantKey == lastOp'.arg[1]
            fieldIndex == lastOp'.arg[2]
            growTime == plantDef[plantKey].growTime
        IN IF gameState.inventory[plantKey] > 0
           THEN /\ lastOp'.ok
                /\ gameState' =
                     [gameState EXCEPT
                        !.inventory[plantKey] = @ - 1,
                        !.fields[fieldIndex] =
                           [unlocked |-> @.unlocked, planted |-> plantKey,
                            plantTime |-> IF growTime < 720000 THEN growTime ELSE 720000,
                            stage |-> 1]]
                /\ harvestedInventory' = harvestedInventory
           ELSE /\ ~lastOp'.ok
                /\ gameState' = gameState
                /\ harvestedInventory' = harvestedInventory]_vars

\* the one pumpkin seed went into the first field: 960000 ms of grow time,
\* 720000 ms on the field
C24_Witness ==
  /\ lastOp = Op("plantSeed", TRUE, <<"pumpkin", 1>>)
  /\ gameState.inventory["pumpkin"] = 0
  /\ gameState.inventory["carrot"] = 1
  /\ gameState.fields[1] = [unlocked |-> TRUE, planted |-> "pumpkin",
                            plantTime |-> 720000, stage |-> 1]

(***************************************************************************)
(* Properties of the farmer's harvest                                      *)
(***************************************************************************)
\* value * count over the units of the summary that are still in
\* harvestedInventory
RECURSIVE C25_ValuePresent(_, _)
C25_ValuePresent(hi, items) ==
  IF items = <<>> THEN 0
  ELSE LET item == Head(items)
       IN item.value * Min(item.count, HIGet(hi, item.plantKey, item.variants))
          + C25_ValuePresent(hi, Tail(items))

\* C25: selling the farmer's harvest summary pays for no unit that is not in
\* harvestedInventory any more: the money grows by at most value * count over
\* the units of the summary that are still there.
C25_PaidOnce ==
  [][(lastOp'.op = "sellFarmerHarvest" /\ lastOp'.ok /\ ~cheatMode)
     => gameState'.money - gameState.money
          <= C25_ValuePresent(harvestedInventory, farmerHarvestSummary.items)]_vars

(***************************************************************************)
(* Properties of the field purchase                                        *)
(***************************************************************************)
\* C26: buyField on a field that is unlocked already changes nothing: no
\* money is taken and the field keeps its plant, its plantTime and its stage.
C26_UnlockedKept ==
  [][(/\ lastOp'.op = "buyField"
      /\ lastOp'.arg <= Len(gameState.fields)
      /\ gameState.fields[lastOp'.arg].unlocked)
     => gameState' = gameState]_vars

C28_Starts ==
  /\ gameState'.eventStartTime # 0
  /\ gameState'.eventStartTime # gameState.eventStartTime

\* C28: an event that is active after a tick started at most EVENT_DURATION
\* ago, an event has a type exactly while it is active, and an event starts
\* only if none ran before or EVENT_INTERVAL has passed since the last one
\* ended.  The last event known to have run is the one of the save; no
\* second one starts before it is over.
C28_EventsSpaced ==
  [][/\ (lastOp'.op = "tick" /\ gameState'.eventStartTime # 0)
        => now' - gameState'.eventStartTime <= EVENT_DURATION
     /\ (gameState'.eventStartTime = 0) <=> (gameState'.eventType = "none")
     /\ (lastOp'.op = "tick" /\ C28_Starts)
        => /\ gameState.eventStartTime = 0
           /\ (storage # <<>> /\ storage[1].state.eventStartTime # 0)
                => now' - (storage[1].state.eventStartTime + EVENT_DURATION) >= EVENT_INTERVAL]_vars

C29_Seeds(inv, k) ==
  IF \E i \in 1..Len(inv) : inv[i].plantKey = k
  THEN inv[CHOOSE i \in 1..Len(inv) : inv[i].plantKey = k].amount
  ELSE 0

C29_Capacity(farmer) ==
  IF farmer.level \in 1..Len(farmerLevels) THEN farmerLevels[farmer.level].slots
  ELSE farmerLevels[1].slots

C30_Ripe(field) == field.planted # "none" /\ field.plantTime <= 0 /\ field.stage >= 3

\* C30: the auto-harvest harvests only while gameState.autoHarvest is on and
\* the rebirths have reached the autoHarvest milestone (1 rebirth); the field
\* it harvests is ripe and no field with a lower index is; all other fields
\* stay as they are; and two auto-harvests are at least 1000 ms apart, the
\* time of the last one being kept by every other step.
C30_AutoHarvest ==
  [][/\ lastOp'.op = "autoHarvest"
        => LET i == lastOp'.arg
           IN /\ gameState.autoHarvest
              /\ gameState.rebirths >= 1
              /\ i \in 1..Len(gameState.fields)
              /\ C30_Ripe(gameState.fields[i])
              /\ \A j \in 1..(i - 1) : ~C30_Ripe(gameState.fields[j])
              /\ gameState'.fields[i].planted = "none"
              /\ \A j \in (1..Len(gameState.fields)) \ {i} :
                   gameState'.fields[j] = gameState.fields[j]
              /\ now - lastAutoHarvestRef >= 1000
              /\ lastAutoHarvestRef' = now
     /\ lastOp'.op # "autoHarvest" => lastAutoHarvestRef' = lastAutoHarvestRef]_vars

\* with no input of the player, both planted fields of a save have been
\* harvested, the second one a second after the first
C30_Witness ==
  /\ lastOp.op = "autoHarvest" /\ lastOp.arg = 2
  /\ inputs = 0
  /\ storage # <<>> /\ \A j \in 1..2 : storage[1].state.fields[j].planted # "none"
  /\ \A j \in 1..2 : gameState.fields[j].planted = "none"
  /\ lastAutoHarvestRef = now /\ now = Now0 + 1000

(***************************************************************************)
(* Properties of the seed shop                                             *)
(***************************************************************************)
\* C31: buySeed of a plant that is not among getAllPlants(rebirths) changes
\* no state, and getAllPlants(rebirths) is the regular plants together with
\* the prestige-locked plants whose rebirthRequired is at most rebirths.
C31_LockedSeedRefused ==
  [][/\ (lastOp'.op = "buySeed"
          /\ lastOp'.arg[1] \in RebirthPlantKeys
          /\ gameState.rebirths < rebirthPlants[lastOp'.arg[1]].rebirthRequired)
        => gameState' = gameState
     /\ \A k \in PlantKeys :
          k \in getAllPlants(gameState'.rebirths)
            <=> \/ k \in RegularPlantKeys
                \/ /\ k \in RebirthPlantKeys
                   /\ rebirthPlants[k].rebirthRequired <= gameState'.rebirths]_vars

(***************************************************************************)
(* Properties of a single roll                                             *)
(***************************************************************************)
\* variants[v].chance: one in so many
C32_Chance(v) ==
  CASE v = "normal"    -> 1
    [] v = "gold"      -> 20
    [] v = "shiny"     -> 75
    [] v = "diamond"   -> 250
    [] v = "platinum"  -> 1000
    [] v = "mythic"    -> 5000
    [] v = "legendary" -> 25000

\* C32: the first roll of a harvest returns the rarest variant among those
\* whose draw succeeded, whatever commoner draws succeeded with it, and it
\* returns normal exactly when every draw failed.
C32_RarestWins ==
  rollResult # <<>> =>
    LET d == rollDraws[1]
        succeeded == {i \in DrawIdx : d[i]}
    IN /\ (rollResult[1] = "normal") <=> (succeeded = {})
       /\ succeeded # {} =>
            \E i \in succeeded :
               /\ rollResult[1] = variantKeys[i]
               /\ \A j \in succeeded :
                    C32_Chance(variantKeys[j]) <= C32_Chance(variantKeys[i])

\* the draws of gold and of legendary both succeeded and legendary was returned
C32_Witness ==
  /\ rollResult # <<>>
  /\ rollDraws[1][2] /\ rollDraws[1][7] /\ ~rollDraws[1][6]
  /\ rollResult[1] = "legendary"

(***************************************************************************)
(* Properties of the growth                                                *)
(***************************************************************************)
\* 1000 x speedFactor of field i: watered fields grow by speedMult + 0.25 per
\* waterStrength level (speedMult 2.5 at strength 1), all by 1.1 from the
\* growthBonus milestone (3 rebirths) on
C33_Step(i) ==
  LET water4 == IF wateredFields[i] > 0 THEN 10 + gameState.rebirthShop.waterStrength ELSE 4
      growth10 == IF gameState.rebirths >= 3 THEN 11 ELSE 10
  IN 25 * water4 * growth10

C33_GrowsAt(i) ==
  /\ i \in DOMAIN gameState.fields
  /\ gameState.fields[i].planted # "none"
  /\ gameState.fields[i].plantTime > 0

C33_RipeOrGone(i) ==
  \/ i \notin DOMAIN gameState.fields
  \/ gameState.fields[i].planted = "none"
  \/ gameState.fields[i].plantTime = 0 /\ gameState.fields[i].stage = 3

C34_DoubleInvocation ==
  [][(lastOp'.op = "plantSeedTwice" /\ gameState.inventory[lastOp'.arg[1]] = 1)
       => LET k == lastOp'.arg[1]
          IN /\ gameState'.inventory[k] >= 0
             /\ gameState.inventory[k] - gameState'.inventory[k] <= 1
             /\ Cardinality({i \in DOMAIN gameState.fields :
                               gameState'.fields[i] # gameState.fields[i]}) <= 1]_vars

(***************************************************************************)
(* Properties of the offline reconciliation                                *)
(***************************************************************************)
\* C35: loadGame leaves no field with more remaining grow time than the save
\* gave it, whatever lastUpdate the save carries, one ahead of the clock
\* included.
C35_NoTimeAdded ==
  [][(lastOp'.op = "loadGame" /\ storage # <<>>)
       => \A i \in DOMAIN gameState'.fields :
            gameState'.fields[i].plantTime <= storage[1].state.fields[i].plantTime]_vars

(***************************************************************************)
(* Properties of the milestone tokens                                      *)
(***************************************************************************)
\* C36: a tick adds 5 rebirth tokens and marks the bonus claimed exactly when
\* the rebirths are at least 10 and the bonus is unclaimed, and adds nothing
\* otherwise; a rebirth adds its own tokens only and keeps the mark; no step
\* but the load of a save changes the mark in any other way, so a claimed
\* bonus stays claimed and is not granted again.
C36_BonusOnce ==
  [][/\ lastOp'.op = "tick"
        => IF gameState.rebirths >= 10 /\ ~gameState.milestoneTokensClaimed
           THEN /\ gameState'.rebirthTokens = gameState.rebirthTokens + 5
                /\ gameState'.milestoneTokensClaimed
           ELSE /\ gameState'.rebirthTokens = gameState.rebirthTokens
                /\ gameState'.milestoneTokensClaimed = gameState.milestoneTokensClaimed
     /\ (lastOp'.op = "doRebirth" /\ lastOp'.ok)
        => /\ gameState'.rebirthTokens
                = gameState.rebirthTokens + getRebirthTokens(gameState.rebirths)
           /\ gameState'.milestoneTokensClaimed = gameState.milestoneTokensClaimed
     /\ lastOp'.op = "loadGame"
        => /\ gameState'.rebirthTokens
                = IF storage = <<>> THEN gameState.rebirthTokens
                  ELSE storage[1].state.rebirthTokens
     /\ lastOp'.op \notin {"tick", "doRebirth", "loadGame"}
        => /\ gameState'.rebirthTokens = gameState.rebirthTokens
           /\ gameState'.milestoneTokensClaimed = gameState.milestoneTokensClaimed]_vars

\* the bonus was granted by the first tick after the load, a rebirth followed,
\* and the tick after the rebirth has added nothing
C36_Witness ==
  /\ lastOp.op = "tick"
  /\ storage # <<>> /\ ~storage[1].state.milestoneTokensClaimed
  /\ gameState.rebirths = storage[1].state.rebirths + 1
  /\ gameState.milestoneTokensClaimed
  /\ gameState.rebirthTokens
       = storage[1].state.rebirthTokens + 5 + getRebirthTokens(storage[1].state.rebirths)
  /\ now = EventMount + 2000

(***************************************************************************)
(* Properties of the farmer's collection                                   *)
(***************************************************************************)
C37_Complete(slot) == now - slot.startTime >= slot.duration

\* the units of one plant in a harvested inventory
RECURSIVE C37_Sum(_, _)
C37_Sum(hi, keys) ==
  IF keys = {} THEN 0
  ELSE LET x == CHOOSE y \in keys : TRUE IN hi[x] + C37_Sum(hi, keys \ {x})

C37_UnitsOf(hi, plantKey) == C37_Sum(hi, {x \in DOMAIN hi : x[1] = plantKey})

RECURSIVE C37_Counts(_)
C37_Counts(items) == IF items = <<>> THEN 0 ELSE Head(items).count + C37_Counts(Tail(items))

\* C37: collectAllFarmerSlots removes exactly the jobs that are complete when
\* it is called and keeps the others in their order; every removed job adds
\* one unit of its plant to harvestedInventory and one to the summary; and
\* collectFarmerSlot on a job that is not complete changes nothing.
C37_CollectAll ==
  [][/\ lastOp'.op = "collectAllFarmerSlots"
        => LET slots == gameState.farmer.slots
               complete == {i \in 1..Len(slots) : C37_Complete(slots[i])}
           IN /\ gameState'.farmer.slots
                   = SelectSeq(slots, LAMBDA sl : ~C37_Complete(sl))
              /\ \A k \in PlantKeys :
                   C37_UnitsOf(harvestedInventory', k)
                     = C37_UnitsOf(harvestedInventory, k)
                       + Cardinality({i \in complete : slots[i].plantKey = k})
              /\ C37_Counts(farmerHarvestSummary'.items) = Cardinality(complete)
     /\ (/\ lastOp'.op = "collectFarmerSlot"
         /\ ~C37_Complete(gameState.farmer.slots[lastOp'.arg]))
        => /\ gameState' = gameState
           /\ harvestedInventory' = harvestedInventory
           /\ farmerHarvestSummary' = farmerHarvestSummary]_vars

\* of four jobs the first and the third were complete and have been collected;
\* the second and the fourth are left, in that order
C37_Witness ==
  /\ lastOp.op = "collectAllFarmerSlots" /\ lastOp.arg = 2
  /\ Len(gameState.farmer.slots) = 2
  /\ gameState.farmer.slots[1].plantKey = "tomato"
  /\ gameState.farmer.slots[2].plantKey = "potato"
  /\ C37_UnitsOf(harvestedInventory, "corn") = 1

\* C38: after the firstPlantDisc milestone the first purchase of each plant
\* type in a run costs half its price, rounded down, per seed.  Checked on
\* the run of the save with 16 rebirths in which nothing was bought yet:
\* its first purchase is half price, and when that was its only input so
\* far and bought carrots, a following first purchase of pumpkins is
\* accepted at half price as well.
C38_FirstOfEachPlant ==
  [][/\ gameState.rebirths = 16 /\ ~cheatMode
     /\ lastOp'.op = "buySeed"
     /\ \/ ~gameState.startMoneyUsed
        \/ /\ inputs = 1 /\ lastOp.op = "buySeed" /\ lastOp.ok
           /\ lastOp.arg[1] = "carrot" /\ lastOp'.arg[1] = "pumpkin"
     => LET cost == (plantDef[lastOp'.arg[1]].price \div 2) * lastOp'.arg[2]
        IN IF gameState.money < cost
           THEN ~lastOp'.ok /\ gameState' = gameState
           ELSE lastOp'.ok /\ gameState'.money = gameState.money - cost]_vars

\* C39: water(fieldIndex) on a field that is watered or cooling down is
\* refused and changes no watering timer; no step raises the boost timer of
\* a field whose boost is active, and a tick lowers both timers by 1000 down
\* to 0; in every state a field with an active boost has a cooldown at least
\* as long.
C39_Refused ==
  lastOp'.op = "waterField"
     /\ (wateredFields[lastOp'.arg] > 0 \/ waterCooldowns[lastOp'.arg] > 0)
  => ~lastOp'.ok /\ UNCHANGED <<wateredFields, waterCooldowns>>

C39_NotExtended ==
  \A i \in DOMAIN wateredFields :
    /\ wateredFields[i] > 0 => wateredFields'[i] <= wateredFields[i]
    /\ lastOp'.op = "waterField" /\ lastOp'.ok /\ wateredFields'[i] # wateredFields[i]
       => /\ wateredFields[i] = 0 /\ waterCooldowns[i] = 0
          /\ wateredFields'[i] = getWaterStats(gameState.waterUpgrades).duration
          /\ waterCooldowns'[i] >= wateredFields'[i]
             + getWaterStats(gameState.waterUpgrades).cooldown
    /\ lastOp'.op = "tick"
       => /\ wateredFields'[i] = IF wateredFields[i] > 1000 THEN wateredFields[i] - 1000 ELSE 0
          /\ waterCooldowns'[i] = IF waterCooldowns[i] > 1000 THEN waterCooldowns[i] - 1000 ELSE 0

C39_CooldownCovers ==
  \A i \in DOMAIN wateredFields :
    wateredFields[i] > 0 => waterCooldowns[i] >= wateredFields[i]

C39_BoostNotReapplied ==
  [][C39_Refused /\ C39_NotExtended]_vars /\ []C39_CooldownCovers

\* a watering was refused on a field whose boost has run out and whose
\* cooldown still runs, after a watering that reached two fields
C39_Witness ==
  /\ lastOp.op = "waterField" /\ ~lastOp.ok
  /\ wateredFields[lastOp.arg] = 0 /\ waterCooldowns[lastOp.arg] > 0
  /\ \E i \in DOMAIN waterCooldowns : i # lastOp.arg /\ waterCooldowns[i] > 0

====
